---- MODULE Spec2Model ----
(***************************************************************************)
(* State capture of the debug agent (src/agent/state.ts): one capture of   *)
(* a frozen execution state, as the state machine                          *)
(*   evaluate expressions -> resolve frames -> drain the variable table    *)
(*   -> trim -> return.                                                    *)
(* JavaScript strings are sequences of one-character strings, so that      *)
(* lengths, prefixes and concatenations are computed as the code computes  *)
(* them.  Array indices are the code's 0-based indices; the TLA+ sequence  *)
(* position of index k is k + 1.                                           *)
(***************************************************************************)
EXTENDS Integers, Sequences, FiniteSets, TLC

VARIABLES
  state_,                  \* the frozen stack: sequence of frame mirrors
  heap,                    \* the frozen object graph: object id -> object
  expressions_,            \* the watch expressions
  config_,                 \* the capture configuration
  evaluatedExpressions_,
  totalSize_,
  resolvedVariableTable_,
  rawVariableTable_,
  evalIndexSet,
  frames,                  \* the frames resolved so far (result of resolveFrames_)
  index2,                  \* position of the forEach over the expressions
  i,                       \* loop counter of resolveFrames_
  index,                   \* loop counter of the drain loop
  pc,                      \* position of capture_
  log                      \* calls made into the inspected program: the
                           \* expressions evaluated, the frames whose scopes
                           \* were walked, the properties read, the frames
                           \* fetched with state_.frame(i) and by which phase

vars == <<state_, heap, expressions_, config_, evaluatedExpressions_, totalSize_,
          resolvedVariableTable_, rawVariableTable_, evalIndexSet, frames,
          index2, i, index, pc, log>>

inputs == <<state_, heap, expressions_, config_>>

-----------------------------------------------------------------------------
(* Bounds of the model *)

NumObjects == 3
MaxExpressions == 2
MaxStack == 3
MaxWidth == 4

-----------------------------------------------------------------------------
(* Program constants *)

BUFFER_FULL_MESSAGE_INDEX == 0
NATIVE_PROPERTY_MESSAGE_INDEX == 1
GETTER_MESSAGE_INDEX == 2
ARG_LOCAL_LIMIT_MESSAGE_INDEX == 3

\* size += 8 for a variable that carries no string value
FudgeSize == 8

\* the raw table holds null in the slots of the messages
Null == 0

-----------------------------------------------------------------------------
(* JavaScript helpers *)

Min(a, b) == IF a < b THEN a ELSE b

Has(r, f) == f \in DOMAIN r

\* s.indexOf(p) === 0
StartsWith(s, p) == Len(p) <= Len(s) /\ SubSeq(s, 1, Len(p)) = p

\* s.substr(n)
Substr(s, n) == SubSeq(s, n + 1, Len(s))

\* s.substring(0, n)
Substring0(s, n) == SubSeq(s, 1, Min(n, Len(s)))

\* a.indexOf(x), -1 when absent
RECURSIVE IndexOfFrom(_, _, _)
IndexOfFrom(a, x, k) ==
  IF k > Len(a) THEN -1
  ELSE IF a[k] = x THEN k - 1
  ELSE IndexOfFrom(a, x, k + 1)

IndexOf(a, x) == IndexOfFrom(a, x, 1)

\* string literals of the source
Dots == <<".", ".", ".">>
FunctionPrefix == <<"f", "u", "n", "c", "t", "i", "o", "n", " ">>
Parens == <<"(", ")">>
AnonymousFunction == <<"(", "a", "n", "o", "n", "y", "m", "o", "u", "s", " ",
                       "f", "u", "n", "c", "t", "i", "o", "n", ")">>
UnknownMirrorType == <<"u", "n", "k", "n", "o", "w", "n", " ", "m", "i", "r", "r",
                       "o", "r", " ", "t", "y", "p", "e">>
LengthName == <<"l", "e", "n", "g", "t", "h">>
ContextName == <<"c", "o", "n", "t", "e", "x", "t">>
NodeModules == <<"n", "o", "d", "e", "_", "m", "o", "d", "u", "l", "e", "s">>
ArgumentsNotAvailable == <<"a", "r", "g", "u", "m", "e", "n", "t", "s", "_", "n", "o",
                           "t", "_", "a", "v", "a", "i", "l", "a", "b", "l", "e">>
LocalsNotAvailable == <<"l", "o", "c", "a", "l", "s", "_", "n", "o", "t", "_", "a",
                        "v", "a", "i", "l", "a", "b", "l", "e">>

-----------------------------------------------------------------------------
(* Values of the inspected program, as their mirrors present them.  The     *)
(* mirror of an object is identified with the object (rawVariableTable_     *)
(* compares mirrors by identity).                                           *)

Undefined == [type |-> "undefined"]
JsNull == [type |-> "null"]
Str(s) == [type |-> "string", text |-> s]
Num(s) == [type |-> "number", text |-> s]
Fn(name, inferred) == [type |-> "function", name |-> name, inferredName |-> inferred]
Obj(id) == [type |-> "object", id |-> id]
OtherMirror == [type |-> "frame"]

isPrimitive(value) == value.type \in {"undefined", "null", "string", "number", "boolean"}
isRegExp(value) == value.type = "regexp"
isFunction(value) == value.type = "function"
isObject(value) == value.type \in {"object", "function", "regexp"}

toText(value) ==
  CASE value.type = "undefined" -> <<"u", "n", "d", "e", "f", "i", "n", "e", "d">>
    [] value.type = "null" -> <<"n", "u", "l", "l">>
    [] OTHER -> value.text

\* the truth value JavaScript gives a value in a condition
ToBoolean(v) ==
  CASE v.type \in {"undefined", "null"} -> FALSE
    [] v.type = "string" -> v.text # <<>>
    [] v.type = "number" -> v.text # <<"0">>
    [] OTHER -> TRUE

\* faulty variant: every status is an error status
StatusMessageAlwaysError(description, isError) ==
  [refersTo |-> "VARIABLE_VALUE", description |-> description, isError |-> TRUE]

StatusMessage(description, isError) ==
  [refersTo |-> "VARIABLE_VALUE", description |-> description, isError |-> isError]

-----------------------------------------------------------------------------
(* Decimal text of a number, as string concatenation produces it *)

Digit == <<"0", "1", "2", "3", "4", "5", "6", "7", "8", "9">>

RECURSIVE NumToString(_)
NumToString(n) ==
  IF n < 10 THEN <<Digit[n + 1]>>
  ELSE NumToString(n \div 10) \o <<Digit[(n % 10) + 1]>>

-----------------------------------------------------------------------------
(* The message table and the tables of a new StateResolver *)

messageTable_ ==
  << [status |-> StatusMessage([text |-> "Max data size reached"], TRUE)],
     [status |-> StatusMessage([text |-> "Native properties are not available"], TRUE)],
     [status |-> StatusMessage([text |-> "Properties with getters are not available"], TRUE)],
     [status |-> StatusMessage(
        [text |-> "Locals and arguments are only displayed for the top maxExpandFrames stack frames.",
         maxExpandFrames |-> config_.capture.maxExpandFrames], TRUE)] >>

\* this.messageTable_.map(function() { return null; })
InitialRawTable == [k \in 1..Len(messageTable_) |-> Null]

-----------------------------------------------------------------------------
(* The object table *)

\* faulty variant: the index returned counts the slots from 1
storeObjectOneBased(raw, obj) ==
  [raw |-> Append(raw, obj.id), idx |-> Len(raw) + 1]

\* faulty variant: the object takes the first slot after the messages and
\* the objects stored before move up
storeObjectAtFront(raw, obj) ==
  [raw |-> SubSeq(raw, 1, 4) \o <<obj.id>> \o SubSeq(raw, 5, Len(raw)), idx |-> 4]

storeObjectToVariableTable_(raw, obj) ==
  [raw |-> Append(raw, obj.id), idx |-> Len(raw)]

\* faulty variant: the object is stored without looking it up first
getVariableIndexAlwaysStores(raw, value) ==
  [raw |-> Append(raw, value.id), idx |-> Len(raw)]

getVariableIndex_(raw, value) ==
  LET idx == IndexOf(raw, value.id)
  IN  IF idx = -1 THEN storeObjectToVariableTable_(raw, value)
      ELSE [raw |-> raw, idx |-> idx]

-----------------------------------------------------------------------------
(* resolveVariable_: st is the resolver's mutable state that the call      *)
(* reads and writes, [raw |-> rawVariableTable_, totalSize |-> totalSize_] *)

resolveFunctionName_(func) ==
  IF ~isFunction(func) THEN <<>>
  ELSE IF func.name # <<>> THEN func.name
  ELSE IF func.inferredName # <<>> THEN func.inferredName
  ELSE AnonymousFunction

\* the size a variable adds: if (data.value) size += data.value.length else size += 8
VariableSize(data) ==
  Len(data.name) +
    (IF Has(data, "value") /\ data.value # <<>> THEN Len(data.value) ELSE FudgeSize)

\* faulty variant: the limit applies whatever the origin of the variable
ExceedsMaxLengthAnyOrigin(text, isEvaluated) ==
  config_.capture.maxStringLength # 0 /\ config_.capture.maxStringLength < Len(text)

\* !isEvaluated && maxLength && maxLength < data.value.length
ExceedsMaxLength(text, isEvaluated) ==
  /\ ~isEvaluated
  /\ config_.capture.maxStringLength # 0
  /\ config_.capture.maxStringLength < Len(text)

resolveVariable_(st, name, value, isEvaluated) ==
  LET maxLength == config_.capture.maxStringLength
      text == toText(value)
      looked == getVariableIndex_(st.raw, value)
      data ==
        IF isPrimitive(value) \/ isRegExp(value) THEN
          IF ExceedsMaxLength(text, isEvaluated)
          THEN [name |-> name,
                value |-> Substring0(text, maxLength) \o Dots,
                status |-> StatusMessage(
                   [text |-> "Only first maxStringLength chars were captured",
                    maxStringLength |-> maxLength, length |-> Len(text)], FALSE)]
          ELSE [name |-> name, value |-> text]
        ELSE IF isFunction(value) THEN
          [name |-> name,
           value |-> FunctionPrefix \o resolveFunctionName_(value) \o Parens]
        ELSE IF isObject(value) THEN
          [name |-> name, varTableIndex |-> looked.idx]
        ELSE [name |-> name, value |-> UnknownMirrorType]
      raw == IF Has(data, "varTableIndex") THEN looked.raw ELSE st.raw
  IN  [st |-> [raw |-> raw, totalSize |-> st.totalSize + VariableSize(data)],
       data |-> data]

-----------------------------------------------------------------------------
(* resolveMirror_ and resolveMirrorProperty_.  A property is                *)
(* [name, isNative, hasGetter, value]; mirror is the object that owns it.   *)
(* read tells whether property.value() was called.                          *)

\* faulty variant: the members are resolved as not evaluated, whatever the
\* entry is
resolveMirrorPropertyNotEvaluated(st, isEvaluated, property, mirror) ==
  LET name == property.name
      isArrayLen == mirror.isArray /\ name = LengthName
  IN  IF property.isNative /\ ~isArrayLen
      THEN [st |-> st, read |-> FALSE,
            data |-> [name |-> name, varTableIndex |-> NATIVE_PROPERTY_MESSAGE_INDEX]]
      ELSE IF property.hasGetter
      THEN [st |-> st, read |-> FALSE,
            data |-> [name |-> name, varTableIndex |-> GETTER_MESSAGE_INDEX]]
      ELSE LET r == resolveVariable_(st, name, property.value, FALSE)
           IN  [st |-> r.st, read |-> TRUE, data |-> r.data]

\* faulty variant: the getter is checked before the native flag
resolveMirrorPropertyGetterFirst(st, isEvaluated, property, mirror) ==
  LET name == property.name
      isArrayLen == mirror.isArray /\ name = LengthName
  IN  IF property.hasGetter
      THEN [st |-> st, read |-> FALSE,
            data |-> [name |-> name, varTableIndex |-> GETTER_MESSAGE_INDEX]]
      ELSE IF property.isNative /\ ~isArrayLen
      THEN [st |-> st, read |-> FALSE,
            data |-> [name |-> name, varTableIndex |-> NATIVE_PROPERTY_MESSAGE_INDEX]]
      ELSE LET r == resolveVariable_(st, name, property.value, isEvaluated)
           IN  [st |-> r.st, read |-> TRUE, data |-> r.data]

resolveMirrorProperty_(st, isEvaluated, property, mirror) ==
  LET name == property.name
      isArrayLen == mirror.isArray /\ name = LengthName
  IN  IF property.isNative /\ ~isArrayLen
      THEN [st |-> st, read |-> FALSE,
            data |-> [name |-> name, varTableIndex |-> NATIVE_PROPERTY_MESSAGE_INDEX]]
      ELSE IF property.hasGetter
      THEN [st |-> st, read |-> FALSE,
            data |-> [name |-> name, varTableIndex |-> GETTER_MESSAGE_INDEX]]
      ELSE LET r == resolveVariable_(st, name, property.value, isEvaluated)
           IN  [st |-> r.st, read |-> TRUE, data |-> r.data]

\* properties.map(this.resolveMirrorProperty_.bind(this, isEvaluated)), from
\* position k on; acc is [st, members, reads]
RECURSIVE MapProperties(_, _, _, _, _)
MapProperties(acc, isEvaluated, properties, mirror, k) ==
  IF k > Len(properties) THEN acc
  ELSE LET r == resolveMirrorProperty_(acc.st, isEvaluated, properties[k], mirror)
       IN  MapProperties(
             [st |-> r.st,
              members |-> Append(acc.members, r.data),
              reads |-> IF r.read THEN acc.reads \cup {k} ELSE acc.reads],
             isEvaluated, properties, mirror, k + 1)

PropertiesNotice(maxProps) ==
  [name |-> <<"Only first config.capture.maxProperties=">> \o NumToString(maxProps)
            \o <<" properties were captured. Use in an expression to see all properties.">>]

\* faulty variant: the limit applies whatever the origin of the entry
TruncatesAnyOrigin(all, isEvaluated) ==
  config_.capture.maxProperties # 0 /\ Len(all) > config_.capture.maxProperties

\* !isEvaluated && truncate, truncate being maxProps && properties.length > maxProps
Truncates(all, isEvaluated) ==
  /\ ~isEvaluated
  /\ config_.capture.maxProperties # 0
  /\ Len(all) > config_.capture.maxProperties

resolveMirror_(st, mirror, isEvaluated) ==
  LET maxProps == config_.capture.maxProperties
      all == mirror.properties
      properties == IF Truncates(all, isEvaluated) THEN SubSeq(all, 1, maxProps) ELSE all
      m == MapProperties([st |-> st, members |-> <<>>, reads |-> {}],
                         isEvaluated, properties, mirror, 1)
      members == IF Truncates(all, isEvaluated)
                 THEN Append(m.members, PropertiesNotice(maxProps))
                 ELSE m.members
  IN  [st |-> m.st, reads |-> m.reads,
       data |-> [value |-> mirror.text, members |-> members]]

-----------------------------------------------------------------------------
(* evaluate: an expression is [text, parses, message, valid, throws,       *)
(* thrown, value]: whether acorn parses it (and the message of the error    *)
(* it throws otherwise), whether the validator accepts its tree, and what   *)
(* frame.evaluate does with it.  executed tells whether frame.evaluate was  *)
(* called.                                                                  *)

\* faulty variant: the validator's answer is not looked at
evaluateWithoutValidation(expression) ==
  IF ~expression.parses
  THEN [error |-> Str(expression.message), executed |-> FALSE]
  ELSE IF expression.throws
  THEN [error |-> expression.thrown, executed |-> TRUE]
  ELSE [error |-> JsNull, mirror |-> expression.value, executed |-> TRUE]

evaluate(expression) ==
  IF ~expression.parses
  THEN [error |-> Str(expression.message), executed |-> FALSE]
  ELSE IF ~expression.valid
  THEN [error |-> Str(<<"expression not allowed">>), executed |-> FALSE]
  ELSE IF expression.throws
  THEN [error |-> expression.thrown, executed |-> TRUE]
  ELSE [error |-> JsNull, mirror |-> expression.value, executed |-> TRUE]

-----------------------------------------------------------------------------
(* Frame eligibility.  A frame mirror is [func, sourceLine, allScopes,     *)
(* receiver] and func is a function mirror with [resolved, script],        *)
(* script being [present, name].                                            *)

resolveFullPath_(frame) ==
  IF ~frame.func.resolved THEN <<>>
  ELSE IF ~frame.func.script.present THEN <<>>
  ELSE frame.func.script.name

stripCurrentWorkingDirectory_(path) ==
  Substr(path, Len(config_.workingDirectory) + 1)

resolveRelativePath_(frame) ==
  stripCurrentWorkingDirectory_(resolveFullPath_(frame))

isPathInCurrentWorkingDirectory_(path) ==
  StartsWith(path, config_.workingDirectory)

isPathInNodeModulesDirectory_(path) ==
  StartsWith(path, NodeModules)

shouldFrameBeResolved_(frame) ==
  IF ~isPathInCurrentWorkingDirectory_(resolveFullPath_(frame)) THEN FALSE
  ELSE IF ~config_.capture.includeNodeModules
          /\ isPathInNodeModulesDirectory_(resolveRelativePath_(frame)) THEN FALSE
  ELSE TRUE

-----------------------------------------------------------------------------
(* resolveLocalsList_.  A scope is [scopeType, object], object being the    *)
(* sequence of the [name, value] bindings of scope.details().object() in    *)
(* enumeration order.                                                       *)

\* names every JavaScript object inherits: usedNames = {} answers them
\* with a function, which is truthy
ObjectPrototypeNames ==
  { <<"c", "o", "n", "s", "t", "r", "u", "c", "t", "o", "r">>,
    <<"t", "o", "S", "t", "r", "i", "n", "g">>,
    <<"v", "a", "l", "u", "e", "O", "f">> }

\* usedNames[name], with usedNames the names set to true so far
UsedNamesLookup(usedNames, name) ==
  name \in usedNames \/ name \in ObjectPrototypeNames

\* transform(scope.details().object(), ...) from binding k on;
\* acc is [st, usedNames, locals]
RECURSIVE TransformScope(_, _, _)
TransformScope(acc, object, k) ==
  IF k > Len(object) THEN acc
  ELSE LET name == object[k].name
           r == resolveVariable_(acc.st, name, object[k].value, FALSE)
       IN  IF ~UsedNamesLookup(acc.usedNames, name)
           THEN TransformScope(
                  [st |-> r.st,
                   usedNames |-> acc.usedNames \cup {name},
                   locals |-> Append(acc.locals, r.data)], object, k + 1)
           ELSE TransformScope(acc, object, k + 1)

\* flatten(scopes.map(...)) from scope k on
RECURSIVE MapScopes(_, _, _)
MapScopes(acc, scopes, k) ==
  IF k > Len(scopes) THEN acc
  ELSE MapScopes(TransformScope(acc, scopes[k].object, 1), scopes, k + 1)

resolveLocalsList_(st, frame) ==
  LET allScopes == frame.allScopes
      count == Len(allScopes)
      scopes == IF allScopes[count - 2].scopeType = "Closure"
                THEN SubSeq(allScopes, 1, count - 3)
                ELSE SubSeq(allScopes, 1, count - 2)
      m == MapScopes([st |-> st, usedNames |-> {}, locals |-> <<>>], scopes, 1)
      ctx == frame.receiver
      c == resolveVariable_(m.st, ContextName, ctx, FALSE)
  IN  IF ToBoolean(ctx)
      THEN [st |-> c.st, locals |-> Append(m.locals, c.data)]
      ELSE [st |-> m.st, locals |-> m.locals]

-----------------------------------------------------------------------------
(* resolveFrame_ *)

resolveLocation_(frame) ==
  [path |-> resolveRelativePath_(frame), line |-> frame.sourceLine + 1]

\* faulty variant: under the cap the arguments list holds what the scope
\* walk gave
resolveFrameWithArguments(st, frame, underFrameCap) ==
  LET l == resolveLocalsList_(st, frame)
  IN  IF ~underFrameCap
      THEN [st |-> st, scopesResolved |-> FALSE,
            frame |-> [function |-> resolveFunctionName_(frame.func),
                       location |-> resolveLocation_(frame),
                       arguments |-> << [name |-> ArgumentsNotAvailable,
                                         varTableIndex |-> ARG_LOCAL_LIMIT_MESSAGE_INDEX] >>,
                       locals |-> << [name |-> LocalsNotAvailable,
                                      varTableIndex |-> ARG_LOCAL_LIMIT_MESSAGE_INDEX] >>]]
      ELSE [st |-> l.st, scopesResolved |-> TRUE,
            frame |-> [function |-> resolveFunctionName_(frame.func),
                       location |-> resolveLocation_(frame),
                       arguments |-> l.locals,
                       locals |-> l.locals]]

resolveFrame_(st, frame, underFrameCap) ==
  LET l == resolveLocalsList_(st, frame)
  IN  IF ~underFrameCap
      THEN [st |-> st, scopesResolved |-> FALSE,
            frame |-> [function |-> resolveFunctionName_(frame.func),
                       location |-> resolveLocation_(frame),
                       arguments |-> << [name |-> ArgumentsNotAvailable,
                                         varTableIndex |-> ARG_LOCAL_LIMIT_MESSAGE_INDEX] >>,
                       locals |-> << [name |-> LocalsNotAvailable,
                                      varTableIndex |-> ARG_LOCAL_LIMIT_MESSAGE_INDEX] >>]]
      ELSE [st |-> l.st, scopesResolved |-> TRUE,
            frame |-> [function |-> resolveFunctionName_(frame.func),
                       location |-> resolveLocation_(frame),
                       arguments |-> <<>>,
                       locals |-> l.locals]]

-----------------------------------------------------------------------------
(* trimVariableTable_ *)

\* faulty variant: the variable that refers to slot fromIndex itself is left alone
RECURSIVE processBufferFullOffByOne(_, _)
processBufferFullOffByOne(variables, fromIndex) ==
  [k \in 1..Len(variables) |->
     LET variable == variables[k]
         marked ==
           IF Has(variable, "varTableIndex")
              /\ variable.varTableIndex # 0
              /\ variable.varTableIndex > fromIndex
           THEN [varTableIndex |-> BUFFER_FULL_MESSAGE_INDEX,
                 status |-> messageTable_[BUFFER_FULL_MESSAGE_INDEX + 1].status]
                @@ variable
           ELSE variable
     IN  IF Has(marked, "members")
         THEN [marked EXCEPT !.members =
                 processBufferFullOffByOne(marked.members, fromIndex)]
         ELSE marked]

\* faulty variant: every reference is rewritten, whatever its index
RECURSIVE processBufferFullEvery(_, _)
processBufferFullEvery(variables, fromIndex) ==
  [k \in 1..Len(variables) |->
     LET variable == variables[k]
         marked ==
           IF Has(variable, "varTableIndex")
              /\ variable.varTableIndex # 0
           THEN [varTableIndex |-> BUFFER_FULL_MESSAGE_INDEX,
                 status |-> messageTable_[BUFFER_FULL_MESSAGE_INDEX + 1].status]
                @@ variable
           ELSE variable
     IN  IF Has(marked, "members")
         THEN [marked EXCEPT !.members = processBufferFullEvery(marked.members, fromIndex)]
         ELSE marked]

\* faulty variant: the members of the variables are not gone through
processBufferFullShallow(variables, fromIndex) ==
  [k \in 1..Len(variables) |->
     LET variable == variables[k]
     IN  IF Has(variable, "varTableIndex")
            /\ variable.varTableIndex # 0
            /\ variable.varTableIndex >= fromIndex
         THEN [varTableIndex |-> BUFFER_FULL_MESSAGE_INDEX,
               status |-> messageTable_[BUFFER_FULL_MESSAGE_INDEX + 1].status]
              @@ variable
         ELSE variable]

RECURSIVE processBufferFull(_, _)
processBufferFull(variables, fromIndex) ==
  [k \in 1..Len(variables) |->
     LET variable == variables[k]
         marked ==
           IF Has(variable, "varTableIndex")
              /\ variable.varTableIndex # 0
              /\ variable.varTableIndex >= fromIndex
           THEN [varTableIndex |-> BUFFER_FULL_MESSAGE_INDEX,
                 status |-> messageTable_[BUFFER_FULL_MESSAGE_INDEX + 1].status]
                @@ variable
           ELSE variable
     IN  IF Has(marked, "members")
         THEN [marked EXCEPT !.members = processBufferFull(marked.members, fromIndex)]
         ELSE marked]

\* frames.forEach: processBufferFull(frame.arguments); processBufferFull(frame.locals)
TrimFrames(fs, fromIndex) ==
  [k \in 1..Len(fs) |->
     [fs[k] EXCEPT !.arguments = processBufferFull(fs[k].arguments, fromIndex),
                   !.locals = processBufferFull(fs[k].locals, fromIndex)]]

\* faulty variant: the cut takes the last resolved entry with it
SpliceOneMore(table, fromIndex) == SubSeq(table, 1, Min(fromIndex, Len(table)) - 1)

\* resolvedVariableTable_.splice(fromIndex)
Splice(table, fromIndex) == SubSeq(table, 1, Min(fromIndex, Len(table)))

trimVariableTable_(fromIndex, fs, evaluated, table) ==
  [frames |-> TrimFrames(fs, fromIndex),
   evaluatedExpressions |-> processBufferFull(evaluated, fromIndex),
   variableTable |-> processBufferFull(Splice(table, fromIndex), fromIndex)]

-----------------------------------------------------------------------------
(* The frozen execution states, expressions and configurations checked *)

Long == <<"x", "x", "x", "x", "x", "x">>
WorkDir == <<"/", "w">>

Objects == 1..NumObjects
NextObject(k) == (k % NumObjects) + 1

Property(name, value) ==
  [name |-> name, isNative |-> FALSE, hasGetter |-> FALSE, value |-> value]

\* the shapes an object of the graph takes: empty, referring to itself,
\* a string with a reference on and a reference back, an array
ObjectShapes == 1..4

ObjectOfShape(k, shape) ==
  CASE shape = 1 -> [isArray |-> FALSE, text |-> <<"#", "O">>, properties |-> <<>>]
    [] shape = 2 -> [isArray |-> FALSE, text |-> <<"#", "O">>,
                     properties |-> << Property(<<"s">>, Obj(k)) >>]
    [] shape = 3 -> [isArray |-> FALSE, text |-> <<"#", "O">>,
                     properties |-> << Property(<<"a">>, Str(Long)),
                                       Property(<<"n">>, Obj(NextObject(k))),
                                       Property(<<"s">>, Obj(k)) >>]
    [] shape = 4 -> [isArray |-> TRUE, text |-> <<"#", "A">>,
                     properties |-> << Property(<<"0">>, Obj(NextObject(k))),
                                       Property(<<"1">>, Obj(NextObject(k))),
                                       [name |-> LengthName, isNative |-> TRUE,
                                        hasGetter |-> FALSE, value |-> Num(<<"2">>)] >>]

Heaps == { [k \in Objects |-> ObjectOfShape(k, shapes[k])] :
             shapes \in [Objects -> ObjectShapes] }

DefaultHeap == [k \in Objects |-> ObjectOfShape(k, 3)]

\* heaps whose first object has one property, of every flag combination
PropertyHeaps ==
  { [DefaultHeap EXCEPT ![1] =
       [isArray |-> isArray, text |-> <<"#", "P">>,
        properties |-> << [name |-> name, isNative |-> isNative,
                           hasGetter |-> hasGetter, value |-> value],
                          Property(<<"q">>, Obj(1)) >>]] :
      isArray \in BOOLEAN, name \in {LengthName, <<"p">>},
      isNative \in BOOLEAN, hasGetter \in BOOLEAN,
      value \in {Num(<<"2">>), Str(Long), Obj(NextObject(1))} }

\* heaps whose first object has more properties than maxProperties allows
WideHeaps ==
  { [DefaultHeap EXCEPT ![1] =
       [isArray |-> FALSE, text |-> <<"#", "W">>,
        properties |-> [k \in 1..n |-> Property(<<Digit[k]>>,
                          IF k % 2 = 0 THEN Obj(NextObject(1)) ELSE Str(Long))]]] :
      n \in 2..MaxWidth }

Binding(name, value) == [name |-> name, value |-> value]
Scope(scopeType, object) == [scopeType |-> scopeType, object |-> object]

ScriptScope == Scope("Script", <<>>)
GlobalScope == Scope("Global", << Binding(<<"g">>, Str(<<"G">>)) >>)
ModuleScope == Scope("Closure", << Binding(<<"m">>, Obj(NumObjects)) >>)

FunctionMirror(name, path) ==
  [type |-> "function", resolved |-> TRUE, name |-> name, inferredName |-> <<>>,
   script |-> [present |-> TRUE, name |-> path]]

\* a function of a module: [local, closure (module), script, global]
FunctionFrame(path, locals, receiver) ==
  [func |-> FunctionMirror(<<"f">>, path), sourceLine |-> 4,
   allScopes |-> << Scope("Local", locals), ModuleScope, ScriptScope, GlobalScope >>,
   receiver |-> receiver]

\* a breakpoint at top level: [local, script, global]
TopLevelFrame(path, locals) ==
  [func |-> FunctionMirror(<<>>, path), sourceLine |-> 0,
   allScopes |-> << Scope("Local", locals), ScriptScope, GlobalScope >>,
   receiver |-> Undefined]

InRoot == WorkDir \o <<"/", "f">>
OutsideRoot == <<"/", "o", "/", "f">>
InNodeModules == WorkDir \o <<"/">> \o NodeModules \o <<"/", "f">>

LocalsOf(k) ==
  << Binding(<<"x">>, Obj(k)), Binding(<<"y">>, Str(Long)), Binding(<<"z">>, Obj(k)) >>

FrameMenu ==
  { FunctionFrame(InRoot, LocalsOf(1), Obj(NumObjects)),
    TopLevelFrame(InRoot, << Binding(<<"t">>, Obj(NextObject(1))) >>),
    FunctionFrame(OutsideRoot, LocalsOf(1), Undefined),
    FunctionFrame(InNodeModules, LocalsOf(1), Undefined) }

DefaultStack ==
  << FunctionFrame(InRoot, LocalsOf(1), Undefined),
     TopLevelFrame(InRoot, << Binding(<<"t">>, Obj(NumObjects)) >>) >>

Stacks == UNION { [1..n -> FrameMenu] : n \in 1..MaxStack }

Expression(text, parses, valid, throws, thrown, value) ==
  [text |-> text, parses |-> parses, message |-> <<"Unexpected token">>,
   valid |-> valid, throws |-> throws, thrown |-> thrown, value |-> value]

Returning(text, value) == Expression(text, TRUE, TRUE, FALSE, Undefined, value)
Throwing(text, thrown) == Expression(text, TRUE, TRUE, TRUE, thrown, Undefined)

ErrorObject == [type |-> "error", text |-> <<"ReferenceError: q is not defined">>]

ExpressionMenu ==
  { Expression(<<"(">>, FALSE, FALSE, FALSE, Undefined, Undefined),
    Expression(<<"x", "=", "1">>, TRUE, FALSE, FALSE, Undefined, Undefined),
    Throwing(<<"q">>, ErrorObject),
    Throwing(<<"t", "(", ")">>, Str(<<>>)),
    Returning(<<"y">>, Str(Long)),
    Returning(<<"x">>, Obj(1)),
    Returning(<<"x", ".", "n">>, Obj(NextObject(1))),
    Returning(<<"f">>, Fn(<<>>, <<"f">>)) }

ExpressionLists == UNION { [1..n -> ExpressionMenu] : n \in 0..MaxExpressions }

Config(maxDataSize, maxStringLength, maxProperties, maxFrames, maxExpandFrames,
       includeNodeModules) ==
  [capture |-> [maxDataSize |-> maxDataSize, maxStringLength |-> maxStringLength,
                maxProperties |-> maxProperties, maxFrames |-> maxFrames,
                maxExpandFrames |-> maxExpandFrames,
                includeNodeModules |-> includeNodeModules],
   workingDirectory |-> WorkDir]

\* config.capture.maxDataSize when the configuration does not set it
UndefinedSize == -1

DataSizes == {0, 1, 40, 60}
\* <<maxStringLength, maxProperties>>
Limits == { <<0, 0>>, <<2, 1>> }
AllLimits == { <<0, 0>>, <<2, 1>>, <<2, 2>>, <<0, 3>> }

\* the inputs of a capture
Load(stack, h, expressions, config) ==
  /\ state_ = stack
  /\ heap = h
  /\ expressions_ = expressions
  /\ config_ = config

\* object graphs of every shape under every budget
GraphScenarios ==
  \E h \in Heaps, d \in DataSizes, l \in Limits,
     e \in { <<>>, << Returning(<<"x", ".", "n">>, Obj(NextObject(1))) >> } :
    Load(DefaultStack, h, e, Config(d, l[1], l[2], MaxStack, MaxStack, FALSE))

\* every list of expressions
ExpressionScenarios ==
  \E e \in ExpressionLists, d \in {0, 40} :
    Load(DefaultStack, DefaultHeap, e, Config(d, 2, 1, MaxStack, MaxStack, FALSE))

\* every stack under every frame limit
FrameScenarios ==
  \E s \in Stacks, mf \in {1, MaxStack}, mef \in {0, 1, MaxStack - 1}, inm \in BOOLEAN :
    Load(s, DefaultHeap, << Returning(<<"x">>, Obj(1)) >>, Config(60, 2, 0, mf, mef, inm))

\* every kind of property, and objects wider than maxProperties
PropertyScenarios ==
  \E h \in PropertyHeaps \cup WideHeaps, l \in AllLimits,
     e \in { <<>>, << Returning(<<"x">>, Obj(1)) >> } :
    Load(DefaultStack, h, e, Config(0, l[1], l[2], MaxStack, MaxStack, FALSE))

\* the scopes a function body can be nested in: a block, a function, an
\* enclosing function, a catch clause.  x is declared by all of them, with a
\* value that tells the scope; constructor is a name Object.prototype has
InnerScopes ==
  { Scope("Block", << Binding(<<"x">>, Str(<<"B">>)), Binding(<<"b">>, Obj(1)) >>),
    Scope("Local", << Binding(<<"x">>, Str(<<"L">>)),
                      Binding(<<"c", "o", "n", "s", "t", "r", "u", "c", "t", "o", "r">>,
                              Str(<<"K">>)) >>),
    Scope("Closure", << Binding(<<"x">>, Str(<<"C">>)), Binding(<<"c">>, Str(<<"C">>)) >>),
    Scope("Catch", << Binding(<<"e">>, Obj(2)) >>) }

\* the three scopes a chain ends with, for a breakpoint at top level and for
\* one in a module; each declares x and a name of its own
TopLevelTail ==
  << Scope("Local", << Binding(<<"x">>, Str(<<"T">>)), Binding(<<"t">>, Str(<<"T">>)) >>),
     Scope("Script", << Binding(<<"x">>, Str(<<"S">>)), Binding(<<"s">>, Str(<<"S">>)) >>),
     Scope("Global", << Binding(<<"x">>, Str(<<"G">>)), Binding(<<"g">>, Obj(1)) >>) >>

ModuleTail ==
  << Scope("Closure", << Binding(<<"x">>, Str(<<"M">>)), Binding(<<"m">>, Obj(1)) >>) >>
    \o Tail(TopLevelTail)

ScopeChains ==
  { inner \o tail :
      inner \in UNION { [1..n -> InnerScopes] : n \in 0..2 },
      tail \in {TopLevelTail, ModuleTail} }

ScopeFrame(allScopes, receiver) ==
  [func |-> FunctionMirror(<<"f">>, InRoot), sourceLine |-> 4,
   allScopes |-> allScopes, receiver |-> receiver]

\* a function that declares a variable named context and has a receiver
ContextFrame ==
  ScopeFrame(<< Scope("Local", << Binding(ContextName, Str(<<"L">>)) >>) >> \o ModuleTail,
             Obj(1))

\* every scope chain
ScopeScenarios ==
  \E f \in { ScopeFrame(c, Undefined) : c \in ScopeChains } \cup {ContextFrame},
     d \in {0, 40} :
    Load(<<f>>, DefaultHeap, <<>>, Config(d, 0, 0, MaxStack, MaxStack, FALSE))

\* a file of a directory next to the working directory whose name starts
\* with the name of the working directory
SiblingOfRoot == WorkDir \o <<"x", "/", "f">>

\* frames of a function that is not resolved and of one without a script
UnresolvedFrame ==
  [FunctionFrame(InRoot, LocalsOf(1), Undefined) EXCEPT !.func.resolved = FALSE]
NoScriptFrame ==
  [FunctionFrame(InRoot, LocalsOf(1), Undefined) EXCEPT !.func.script.present = FALSE]

PathFrames ==
  { FunctionFrame(path, LocalsOf(1), Undefined) :
      path \in {InRoot, OutsideRoot, SiblingOfRoot, InNodeModules} }
    \cup {UnresolvedFrame, NoScriptFrame}

\* every kind of source path
PathScenarios ==
  \E f \in PathFrames, d \in {0, 40}, inm \in BOOLEAN :
    Load(<< f, TopLevelFrame(InRoot, << Binding(<<"t">>, Obj(NumObjects)) >>) >>,
         DefaultHeap, <<>>, Config(d, 2, 1, MaxStack, MaxStack, inm))

\* a configuration that does not set maxDataSize
AbsentScenarios ==
  \E h \in { [k \in Objects |-> ObjectOfShape(k, shape)] : shape \in ObjectShapes },
     e \in { <<>>, << Returning(<<"x">>, Obj(1)) >> } :
    Load(DefaultStack, h, e, Config(UndefinedSize, 2, 1, MaxStack, MaxStack, FALSE))

\* the values a function can have as its receiver: none, null, an object,
\* and in strict mode a primitive, among them '' and 0
Receivers ==
  { Undefined, JsNull, Obj(1), Str(<<>>), Num(<<"0">>), Str(<<"s">>), Num(<<"7">>) }

\* every kind of receiver
ReceiverScenarios ==
  \E r \in Receivers, d \in {0, 40},
     locals \in { <<>>, LocalsOf(1), << Binding(ContextName, Str(<<"L">>)) >> } :
    Load(<< FunctionFrame(InRoot, locals, r) >>, DefaultHeap, <<>>,
         Config(d, 0, 0, MaxStack, MaxStack, FALSE))

\* frame k of a stack of MaxStack frames, each with a line of its own; the
\* even ones are outside the working directory
CapFrame(k) ==
  [FunctionFrame(IF k % 2 = 0 THEN OutsideRoot ELSE InRoot, LocalsOf(1), Undefined)
     EXCEPT !.sourceLine = k]

\* every maxFrames from 0 on, with and without a watch expression
CapScenarios ==
  \E mf \in 0..MaxStack, mef \in {0, MaxStack},
     e \in { <<>>, << Returning(<<"x">>, Obj(1)) >> } :
    Load([k \in 1..MaxStack |-> CapFrame(k)], DefaultHeap, e,
         Config(60, 2, 1, mf, mef, FALSE))

\* a heap whose first object has an empty string, a native property, a
\* property with a getter and a reference among its properties
MixedHeap ==
  [DefaultHeap EXCEPT ![1] =
     [isArray |-> FALSE, text |-> <<"#", "M">>,
      properties |-> << Property(<<"e">>, Str(<<>>)),
                        [name |-> <<"n">>, isNative |-> TRUE, hasGetter |-> FALSE,
                         value |-> Num(<<"1">>)],
                        [name |-> <<"g">>, isNative |-> FALSE, hasGetter |-> TRUE,
                         value |-> Num(<<"1">>)],
                        Property(<<"q">>, Obj(NextObject(1))) >>]]

\* locals and watch results with empty strings, strings and objects
SizeScenarios ==
  \E d \in {0, 40}, l \in Limits,
     e \in { <<>>, << Returning(<<"e">>, Str(<<>>)), Throwing(<<"q">>, ErrorObject) >>,
              << Returning(<<"x">>, Obj(1)) >> },
     locals \in { LocalsOf(1),
                  << Binding(<<"e">>, Str(<<>>)), Binding(<<"x">>, Obj(1)) >> } :
    Load(<< FunctionFrame(InRoot, locals, Undefined) >>, MixedHeap, e,
         Config(d, l[1], l[2], MaxStack, MaxStack, FALSE))

-----------------------------------------------------------------------------
(* capture_ as a state machine *)

\* faulty variant: the slots are counted from the first object, so that the
\* drain writes over the status entries
SetAtFromFirstObject(table, k, v) ==
  [table EXCEPT ![k - Len(messageTable_) + 1] = v]

\* faulty variant: the slot before is written, again
SetAtPrevious(table, k, v) == [table EXCEPT ![k] = v]

\* table[k] = v, for k at most the length of the table
SetAt(table, k, v) ==
  IF k < Len(table) THEN [table EXCEPT ![k + 1] = v] ELSE Append(table, v)

\* totalSize_ < maxDataSize as JavaScript compares: with maxDataSize
\* undefined the comparison is false
BelowLimit(size, maxDataSize) ==
  IF maxDataSize = UndefinedSize THEN FALSE ELSE size < maxDataSize

\* faulty variant: the loop goes on while the counter is at the limit
DrainConditionInclusive ==
  /\ index < Len(rawVariableTable_)
  /\ \/ /\ config_.capture.maxDataSize # UndefinedSize
        /\ totalSize_ <= config_.capture.maxDataSize
     \/ config_.capture.maxDataSize = 0

\* the condition of the drain loop
DrainCondition ==
  /\ index < Len(rawVariableTable_)
  /\ \/ BelowLimit(totalSize_, config_.capture.maxDataSize)
     \/ config_.capture.maxDataSize = 0

\* faulty variant: maxFrames is not looked at
frameCountUncapped == Len(state_)

\* Math.min(this.state_.frameCount(), this.config_.capture.maxFrames)
frameCount == Min(Len(state_), config_.capture.maxFrames)

\* the fields of a StateResolver after construction, and the positions of
\* capture_ before its first step
Constructed ==
  /\ evaluatedExpressions_ = <<>>
  /\ totalSize_ = 0
  /\ resolvedVariableTable_ = messageTable_
  /\ rawVariableTable_ = InitialRawTable
  /\ evalIndexSet = {}
  /\ frames = <<>>
  /\ index2 = 0
  /\ i = 0
  /\ index = 0
  /\ pc = "expressions"
  /\ log = [evaluated |-> {}, scopes |-> {}, reads |-> {}, fetched |-> {},
            past |-> <<>>]

Init ==
  /\ \/ GraphScenarios
     \/ ExpressionScenarios
     \/ FrameScenarios
     \/ PropertyScenarios
     \/ ScopeScenarios
     \/ PathScenarios
     \/ AbsentScenarios
     \/ ReceiverScenarios
     \/ CapScenarios
     \/ SizeScenarios
  /\ Constructed

\* one call of the function given to expressions_.forEach
EvaluateExpression ==
  /\ pc = "expressions"
  /\ index2 < Len(expressions_)
  /\ LET expression == expressions_[index2 + 1]
         result == evaluate(expression)
         r == resolveVariable_([raw |-> rawVariableTable_, totalSize |-> totalSize_],
                               expression.text, result.mirror, TRUE)
         executed == IF result.executed THEN log.evaluated \cup {index2}
                     ELSE log.evaluated
     IN  /\ log' = [log EXCEPT !.evaluated = executed,
                               !.fetched = @ \cup {<<"expressions", 0>>}]
         /\ IF ToBoolean(result.error)
            THEN /\ evaluatedExpressions_' =
                      SetAt(evaluatedExpressions_, index2,
                            [name |-> expression.text,
                             status |-> StatusMessage(result.error, TRUE)])
                 /\ index2' = index2 + 1
                 /\ UNCHANGED <<rawVariableTable_, totalSize_, evalIndexSet, pc>>
            ELSE IF ~Has(result, "mirror")
            \* resolveVariable_ calls value.isPrimitive() on undefined: a TypeError
            \* leaves capture_
            THEN /\ pc' = "thrown"
                 /\ UNCHANGED <<evaluatedExpressions_, index2, rawVariableTable_,
                                totalSize_, evalIndexSet>>
            ELSE /\ evaluatedExpressions_' = SetAt(evaluatedExpressions_, index2, r.data)
                 /\ rawVariableTable_' = r.st.raw
                 /\ totalSize_' = r.st.totalSize
                 /\ evalIndexSet' = IF Has(r.data, "varTableIndex")
                                    THEN evalIndexSet \cup {r.data.varTableIndex}
                                    ELSE evalIndexSet
                 /\ index2' = index2 + 1
                 /\ UNCHANGED pc
  /\ UNCHANGED <<inputs, resolvedVariableTable_, frames, i, index>>

\* the forEach is over: capture_ calls resolveFrames_
ExpressionsDone ==
  /\ pc = "expressions"
  /\ index2 = Len(expressions_)
  /\ pc' = "frames"
  /\ i' = 0
  /\ UNCHANGED <<inputs, evaluatedExpressions_, totalSize_, resolvedVariableTable_,
                 rawVariableTable_, evalIndexSet, frames, index2, index, log>>

\* faulty variant: the cap counts the frames kept so far, not the frames of the stack
UnderFrameCapOfKept == Len(frames) < config_.capture.maxExpandFrames

\* (i < this.config_.capture.maxExpandFrames), the underFrameCap of frame i
UnderFrameCap == i < config_.capture.maxExpandFrames

\* one iteration of the loop of resolveFrames_
resolveFrames_ ==
  /\ pc = "frames"
  /\ i < frameCount
  /\ LET frame == state_[i + 1]
         r == resolveFrame_([raw |-> rawVariableTable_, totalSize |-> totalSize_],
                            frame, UnderFrameCap)
     IN  IF shouldFrameBeResolved_(frame)
         THEN /\ frames' = Append(frames, r.frame)
              /\ rawVariableTable_' = r.st.raw
              /\ totalSize_' = r.st.totalSize
              /\ log' = [log EXCEPT !.scopes =
                           IF r.scopesResolved THEN @ \cup {i} ELSE @,
                                    !.fetched = @ \cup {<<"frames", i>>}]
         ELSE /\ log' = [log EXCEPT !.fetched = @ \cup {<<"frames", i>>}]
              /\ UNCHANGED <<frames, rawVariableTable_, totalSize_>>
  /\ i' = i + 1
  /\ UNCHANGED <<inputs, evaluatedExpressions_, resolvedVariableTable_, evalIndexSet,
                 index2, index, pc>>

\* resolveFrames_ returns: let index = this.messageTable_.length
FramesDone ==
  /\ pc = "frames"
  /\ i >= frameCount
  /\ pc' = "drain"
  /\ index' = Len(messageTable_)
  /\ UNCHANGED <<inputs, evaluatedExpressions_, totalSize_, resolvedVariableTable_,
                 rawVariableTable_, evalIndexSet, frames, index2, i, log>>

\* one iteration of the drain loop
Drain ==
  /\ pc = "drain"
  /\ DrainCondition
  /\ LET isEvaluated == index \in evalIndexSet
         id == rawVariableTable_[index + 1]
         r == resolveMirror_([raw |-> rawVariableTable_, totalSize |-> totalSize_],
                             heap[id], isEvaluated)
     IN  /\ resolvedVariableTable_' = SetAt(resolvedVariableTable_, index, r.data)
         /\ rawVariableTable_' = r.st.raw
         /\ totalSize_' = r.st.totalSize
         /\ log' = [log EXCEPT !.reads = @ \cup { <<id, k>> : k \in r.reads }]
  /\ index' = index + 1
  /\ UNCHANGED <<inputs, evaluatedExpressions_, evalIndexSet, frames, index2, i, pc>>

\* faulty variant: the truncator runs after every drain
AfterDrainAlwaysTrim == "trim"

\* if (index < that.rawVariableTable_.length) trimVariableTable_, else return
AfterDrain == IF index < Len(rawVariableTable_) THEN "trim" ELSE "done"

\* the drain loop is over: trim if the table was not drained to its end
DrainDone ==
  /\ pc = "drain"
  /\ ~DrainCondition
  /\ pc' = AfterDrain
  /\ UNCHANGED <<inputs, evaluatedExpressions_, totalSize_, resolvedVariableTable_,
                 rawVariableTable_, evalIndexSet, frames, index2, i, index, log>>

Trim ==
  /\ pc = "trim"
  /\ LET t == trimVariableTable_(index, frames, evaluatedExpressions_,
                                 resolvedVariableTable_)
     IN  /\ frames' = t.frames
         /\ evaluatedExpressions_' = t.evaluatedExpressions
         /\ resolvedVariableTable_' = t.variableTable
  /\ pc' = "done"
  /\ UNCHANGED <<inputs, totalSize_, rawVariableTable_, evalIndexSet, index2, i,
                 index, log>>

Next ==
  \/ EvaluateExpression
  \/ ExpressionsDone
  \/ resolveFrames_
  \/ FramesDone
  \/ Drain
  \/ DrainDone
  \/ Trim

Spec == Init /\ [][Next]_vars

\* the Breakpoint capture_ returns
Snapshot ==
  [stackFrames |-> frames,
   variableTable |-> resolvedVariableTable_,
   evaluatedExpressions |-> evaluatedExpressions_]

Returned == pc = "done"

-----------------------------------------------------------------------------
(* Captures one after the other in one process: capture() constructs a new  *)
(* StateResolver for each.  log.past keeps the inputs and the outcome of    *)
(* the captures that are over.                                              *)

MaxCaptures == 3

\* the inputs the captures of a series are taken from: a tight budget, no
\* budget, another heap and configuration, an expression that throws ''
SeriesInputs ==
  { [state |-> DefaultStack, heap |-> DefaultHeap,
     expressions |-> << Returning(<<"x">>, Obj(1)) >>,
     config |-> Config(40, 2, 1, MaxStack, MaxStack, FALSE)],
    [state |-> DefaultStack, heap |-> DefaultHeap,
     expressions |-> << Returning(<<"x">>, Obj(1)) >>,
     config |-> Config(0, 2, 1, MaxStack, MaxStack, FALSE)],
    [state |-> DefaultStack, heap |-> [k \in Objects |-> ObjectOfShape(k, 4)],
     expressions |-> <<>>,
     config |-> Config(60, 0, 0, MaxStack, 1, FALSE)],
    [state |-> << TopLevelFrame(InRoot, << Binding(<<"t">>, Obj(1)) >>) >>,
     heap |-> DefaultHeap,
     expressions |-> << Throwing(<<"t", "(", ")">>, Str(<<>>)) >>,
     config |-> Config(40, 2, 1, MaxStack, MaxStack, FALSE)] }

\* what the capture that is over gave: its Snapshot, or the exception
Outcome == IF pc = "done" THEN [snapshot |-> Snapshot] ELSE [thrown |-> TRUE]

\* faulty variant: the size counter is a counter of the module, not of the resolver
constructorSharingCounter(execState, h, expressions, config) ==
  /\ state_' = execState
  /\ heap' = h
  /\ expressions_' = expressions
  /\ config_' = config
  /\ evaluatedExpressions_' = <<>>
  /\ totalSize_' = totalSize_
  /\ resolvedVariableTable_' = messageTable_'
  /\ rawVariableTable_' = InitialRawTable

\* new StateResolver(execState, expressions, config, v8)
constructor(execState, h, expressions, config) ==
  /\ state_' = execState
  /\ heap' = h
  /\ expressions_' = expressions
  /\ config_' = config
  /\ evaluatedExpressions_' = <<>>
  /\ totalSize_' = 0
  /\ resolvedVariableTable_' = messageTable_'
  /\ rawVariableTable_' = InitialRawTable

\* capture(execState, expressions, config, v8), once the capture before is over
capture ==
  /\ pc \in {"done", "thrown"}
  /\ Len(log.past) < MaxCaptures
  /\ \E x \in SeriesInputs : constructor(x.state, x.heap, x.expressions, x.config)
  /\ evalIndexSet' = {}
  /\ frames' = <<>>
  /\ index2' = 0
  /\ i' = 0
  /\ index' = 0
  /\ pc' = "expressions"
  /\ log' = [evaluated |-> {}, scopes |-> {}, reads |-> {}, fetched |-> {},
             past |-> Append(log.past, [inputs |-> inputs, outcome |-> Outcome])]

InitSeries ==
  /\ \E x \in SeriesInputs : Load(x.state, x.heap, x.expressions, x.config)
  /\ Constructed

NextSeries == Next \/ capture

SpecSeries == InitSeries /\ [][NextSeries]_vars

-----------------------------------------------------------------------------
(* Vocabulary of the properties *)

\* the variables of a list, with their members
RECURSIVE VariablesIn(_)
VariablesIn(list) ==
  UNION { {list[k]} \cup (IF Has(list[k], "members")
                           THEN VariablesIn(list[k].members) ELSE {}) :
          k \in 1..Len(list) }

SnapshotVariables ==
  VariablesIn(evaluatedExpressions_) \cup VariablesIn(resolvedVariableTable_)
    \cup UNION { VariablesIn(frames[k].arguments) \cup VariablesIn(frames[k].locals) :
                 k \in 1..Len(frames) }

\* the truncator has run
Trimmed == pc = "done" /\ index < Len(rawVariableTable_)

\* the slot of object id in the raw table, -1 when it has none
SlotOf(id) == IndexOf(rawVariableTable_, id)

\* the index a reference to object id carries: its slot, or the index of the
\* buffer full message once the truncator has dropped that slot
ReferenceTo(id) ==
  IF Trimmed /\ SlotOf(id) >= index THEN BUFFER_FULL_MESSAGE_INDEX ELSE SlotOf(id)

\* the slots of the resolved table that hold objects
ResolvedSlots == Len(messageTable_)..(Len(resolvedVariableTable_) - 1)

ObjectAt(k) == heap[rawVariableTable_[k + 1]]
EntryAt(k) == resolvedVariableTable_[k + 1]

\* the members of the entry at slot k that stand for a property: member j is
\* property j of the object
PropertyMembers(k) ==
  { j \in 1..Len(EntryAt(k).members) :
      /\ j <= Len(ObjectAt(k).properties)
      /\ EntryAt(k).members[j].name = ObjectAt(k).properties[j].name }

\* expression k (from 1) was evaluated and gave a value
Succeeded(k) ==
  /\ k <= Len(evaluatedExpressions_)
  /\ expressions_[k].parses /\ expressions_[k].valid /\ ~expressions_[k].throws

\* object id is the direct result of a watch expression
IsWatchResult(id) ==
  \E k \in 1..Len(expressions_) : Succeeded(k) /\ expressions_[k].value = Obj(id)

\* the indices in the stack of the frames that resolveFrames_ keeps
RECURSIVE EligibleFrom(_)
EligibleFrom(k) ==
  IF k >= frameCount THEN <<>>
  ELSE (IF shouldFrameBeResolved_(state_[k + 1]) THEN <<k>> ELSE <<>>)
         \o EligibleFrom(k + 1)

\* the index in the stack of the frame behind frames[p]
SourceOf(p) == EligibleFrom(0)[p]

-----------------------------------------------------------------------------
(* C1: in a returned Snapshot every varTableIndex of a variable reachable    *)
(* from it is below the length of the variableTable or is the index of the  *)
(* buffer full message, whether or not the truncator ran.                   *)
NoDanglingIndex ==
  Returned =>
    \A v \in SnapshotVariables :
      Has(v, "varTableIndex") =>
        \/ v.varTableIndex < Len(Snapshot.variableTable)
        \/ v.varTableIndex = BUFFER_FULL_MESSAGE_INDEX

\* C1 witness: a truncated Snapshot that holds both a reference rewritten to
\* buffer full and a reference to a retained entry
NoDanglingIndexWitness ==
  /\ Trimmed
  /\ \E v \in SnapshotVariables :
       Has(v, "varTableIndex") /\ v.varTableIndex = BUFFER_FULL_MESSAGE_INDEX
  /\ \E v \in SnapshotVariables :
       Has(v, "varTableIndex") /\ v.varTableIndex >= Len(messageTable_)

(* C2: capture terminates on every object graph, cyclic ones and no data    *)
(* size limit included; the entry resolved for an object with a property    *)
(* that refers to the object itself has, as the member of that property, a  *)
(* varTableIndex equal to the entry's own slot; and without a limit every   *)
(* object of the raw table gets its entry.  Termination is stated as: the   *)
(* capture is never stuck before its end, and every step lowers a rank that *)
(* never falls below zero.                                                  *)
SelfReferenceCarriesOwnSlot ==
  \A k \in ResolvedSlots : \A j \in PropertyMembers(k) :
    LET property == ObjectAt(k).properties[j]
    IN  (/\ ~property.isNative /\ ~property.hasGetter
         /\ property.value = Obj(rawVariableTable_[k + 1]))
        => /\ Has(EntryAt(k).members[j], "varTableIndex")
           /\ EntryAt(k).members[j].varTableIndex = k

\* capture_ has returned or thrown
Terminated == pc \in {"done", "thrown"}

\* the steps capture_ has left at most: every loop has a bound, the drain
\* loop the number of objects of the graph, each of which gets one slot
Rank ==
  LET drainSteps == Len(messageTable_) + Cardinality(DOMAIN heap) + 2
  IN  CASE pc = "expressions" ->
             (Len(expressions_) - index2) + Len(state_) + drainSteps + 3
        [] pc = "frames" -> (frameCount - i) + drainSteps + 2
        [] pc = "drain" -> (drainSteps - index) + 1
        [] pc = "trim" -> 1
        [] OTHER -> 0

\* the guard of some action of capture_ holds
CanStep ==
  \/ pc = "expressions" /\ index2 < Len(expressions_)
  \/ pc = "expressions" /\ index2 = Len(expressions_)
  \/ pc = "frames" /\ i < frameCount
  \/ pc = "frames" /\ i >= frameCount
  \/ pc = "drain" /\ DrainCondition
  \/ pc = "drain" /\ ~DrainCondition
  \/ pc = "trim"

CycleSafety ==
  /\ [](Terminated \/ CanStep)
  /\ [](Rank >= 0)
  /\ [][Rank' < Rank]_vars
  /\ [](pc \in {"drain", "trim", "done"} => SelfReferenceCarriesOwnSlot)
  /\ [](Returned /\ config_.capture.maxDataSize = 0
          => Len(resolvedVariableTable_) = Len(rawVariableTable_))

\* C2 witness: a capture without limit has returned, and an object that refers
\* to itself is resolved with the member pointing at its own slot
CycleSafetyWitness ==
  /\ Returned
  /\ config_.capture.maxDataSize = 0
  /\ \E k \in ResolvedSlots : \E j \in PropertyMembers(k) :
       /\ ObjectAt(k).properties[j].value = Obj(rawVariableTable_[k + 1])
       /\ Has(EntryAt(k).members[j], "varTableIndex")
       /\ EntryAt(k).members[j].varTableIndex = k

\* the values a frame binds to a name: in one of its scopes, or as the
\* receiver for the name context
BoundValues(frame, name) ==
  UNION { { frame.allScopes[a].object[b].value :
              b \in { b \in 1..Len(frame.allScopes[a].object) :
                        frame.allScopes[a].object[b].name = name } } :
          a \in 1..Len(frame.allScopes) }
    \cup (IF name = ContextName /\ ToBoolean(frame.receiver)
          THEN {frame.receiver} ELSE {})

BoundObjects(frame, name) ==
  { v.id : v \in { w \in BoundValues(frame, name) : w.type = "object" } }

(* C3: the raw table maps object identities to indices injectively and      *)
(* stably: no object holds two slots, no slot is reassigned, and every      *)
(* variable that refers to an object (an expression result, a member, a     *)
(* local) carries the slot of that object, all referrers of one object the  *)
(* same one.                                                                *)
RawTableInjective ==
  \A a, b \in (Len(messageTable_) + 1)..Len(rawVariableTable_) :
    /\ rawVariableTable_[a] # Null
    /\ rawVariableTable_[a] = rawVariableTable_[b] => a = b

ReferencesCarrySlot ==
  /\ \A k \in 1..Len(evaluatedExpressions_) :
       (Succeeded(k) /\ expressions_[k].value.type = "object")
         => /\ Has(evaluatedExpressions_[k], "varTableIndex")
            /\ evaluatedExpressions_[k].varTableIndex
                 = ReferenceTo(expressions_[k].value.id)
  /\ \A k \in ResolvedSlots : \A j \in PropertyMembers(k) :
       LET property == ObjectAt(k).properties[j]
       IN  (~property.isNative /\ ~property.hasGetter
              /\ property.value.type = "object")
           => /\ Has(EntryAt(k).members[j], "varTableIndex")
              /\ EntryAt(k).members[j].varTableIndex = ReferenceTo(property.value.id)
  /\ \A p \in 1..Len(frames) : \A l \in 1..Len(frames[p].locals) :
       LET v == frames[p].locals[l]
       IN  (Has(v, "varTableIndex")
              /\ v.varTableIndex # ARG_LOCAL_LIMIT_MESSAGE_INDEX)
           => \E id \in BoundObjects(state_[SourceOf(p) + 1], v.name) :
                v.varTableIndex = ReferenceTo(id)

StableInjection ==
  /\ [](RawTableInjective /\ ReferencesCarrySlot)
  /\ [][SubSeq(rawVariableTable_', 1, Len(rawVariableTable_)) = rawVariableTable_]_vars

\* C3 witness: an object that is a watch result, a local and a member of an
\* entry holds one slot, which all three carry
StableInjectionWitness ==
  /\ Returned /\ ~Trimmed
  /\ \E id \in DOMAIN heap :
       /\ SlotOf(id) >= Len(messageTable_)
       /\ \E k \in 1..Len(evaluatedExpressions_) :
            /\ Succeeded(k) /\ expressions_[k].value = Obj(id)
            /\ evaluatedExpressions_[k].varTableIndex = SlotOf(id)
       /\ \E p \in 1..Len(frames) : \E l \in 1..Len(frames[p].locals) :
            /\ Has(frames[p].locals[l], "varTableIndex")
            /\ frames[p].locals[l].varTableIndex = SlotOf(id)
       /\ \E k \in ResolvedSlots : \E j \in PropertyMembers(k) :
            /\ ObjectAt(k).properties[j].value = Obj(id)
            /\ Has(EntryAt(k).members[j], "varTableIndex")
            /\ EntryAt(k).members[j].varTableIndex = SlotOf(id)

(* C4: with maxDataSize = N > 0 the size counter never decreases, the       *)
(* resolved table grows by an entry only in a step that starts with the     *)
(* counter strictly below N, and no entry is removed from it or, before the *)
(* truncator, changed.                                                      *)
BudgetMonotonicity ==
  /\ [][totalSize_' >= totalSize_]_vars
  /\ [][(config_.capture.maxDataSize > 0
           /\ resolvedVariableTable_' # resolvedVariableTable_ /\ pc # "trim")
          => /\ totalSize_ < config_.capture.maxDataSize
             /\ pc = "drain"]_vars
  /\ [][/\ Len(resolvedVariableTable_') >= Len(resolvedVariableTable_)
        /\ pc # "trim" => SubSeq(resolvedVariableTable_', 1, Len(resolvedVariableTable_))
                            = resolvedVariableTable_]_vars

\* C4 witness: the budget ran out after some entries were resolved: the
\* counter is at or over N, entries of objects are retained and others dropped
BudgetMonotonicityWitness ==
  /\ Returned
  /\ config_.capture.maxDataSize > 0
  /\ totalSize_ >= config_.capture.maxDataSize
  /\ Len(resolvedVariableTable_) > Len(messageTable_)
  /\ Len(resolvedVariableTable_) < Len(rawVariableTable_)

\* expression k (from 1) fails: it does not parse, the validator rejects it,
\* or its evaluation throws
Fails(k) ==
  ~expressions_[k].parses \/ ~expressions_[k].valid \/ expressions_[k].throws

\* what evaluate reports of the failure of expression k
FailureDescription(k) ==
  IF ~expressions_[k].parses THEN Str(expressions_[k].message)
  ELSE IF ~expressions_[k].valid THEN Str(<<"expression not allowed">>)
  ELSE expressions_[k].thrown

(* C5: a failing expression never aborts the capture: capture_ does not     *)
(* throw, every expression gets its evaluatedExpressions entry, and the     *)
(* entry of a failing expression is named by its text and carries an error  *)
(* status with the failure description, whatever was thrown.                *)
ExpressionFailuresRecorded ==
  /\ pc # "thrown"
  /\ Returned => Len(evaluatedExpressions_) = Len(expressions_)
  /\ \A k \in 1..Len(evaluatedExpressions_) :
       Fails(k) =>
         /\ evaluatedExpressions_[k].name = expressions_[k].text
         /\ Has(evaluatedExpressions_[k], "status")
         /\ evaluatedExpressions_[k].status.isError
         /\ evaluatedExpressions_[k].status.description = FailureDescription(k)

(* C6: frame.evaluate is called only on an expression that parsed and that  *)
(* the validator accepted; an expression that does not parse or that the    *)
(* validator rejects yields an error entry and is never executed.           *)
EvaluateOnlyValidated ==
  /\ \A k \in log.evaluated :
       expressions_[k + 1].parses /\ expressions_[k + 1].valid
  /\ \A k \in 1..Len(evaluatedExpressions_) :
       (~expressions_[k].parses \/ ~expressions_[k].valid)
         => /\ (k - 1) \notin log.evaluated
            /\ Has(evaluatedExpressions_[k], "status")
            /\ evaluatedExpressions_[k].status.isError
            /\ ~Has(evaluatedExpressions_[k], "value")
            /\ ~Has(evaluatedExpressions_[k], "varTableIndex")

\* C6 witness: an expression the validator rejects and one that does not parse
\* were reported without being executed, and an accepted one was executed
EvaluateOnlyValidatedWitness ==
  /\ \E k \in 1..Len(evaluatedExpressions_) :
       /\ expressions_[k].parses /\ ~expressions_[k].valid
       /\ (k - 1) \notin log.evaluated
       /\ evaluatedExpressions_[k].status.isError
  /\ \E k \in 1..Len(evaluatedExpressions_) :
       Succeeded(k) /\ (k - 1) \in log.evaluated

\* property j of the object at slot k is native and not the length of an array
NativeNotLength(k, j) ==
  /\ ObjectAt(k).properties[j].isNative
  /\ ~(ObjectAt(k).isArray /\ ObjectAt(k).properties[j].name = LengthName)

(* C7: the value of a property is read only if the property has no getter   *)
(* and is not native (the length of an array excepted).  The member of a    *)
(* native property is its name with index 1, that of a property with a      *)
(* getter its name with index 2, native winning over getter; any other      *)
(* property is read and resolved by resolveVariable_.                       *)
PropertyValuesGuarded ==
  /\ \A r \in log.reads :
       LET property == heap[r[1]].properties[r[2]]
       IN  /\ ~property.hasGetter
           /\ property.isNative => (heap[r[1]].isArray /\ property.name = LengthName)
  /\ \A k \in ResolvedSlots : \A j \in PropertyMembers(k) :
       LET property == ObjectAt(k).properties[j]
           member == EntryAt(k).members[j]
       IN  IF NativeNotLength(k, j)
           THEN member = [name |-> property.name,
                          varTableIndex |-> NATIVE_PROPERTY_MESSAGE_INDEX]
           ELSE IF property.hasGetter
           THEN member = [name |-> property.name,
                          varTableIndex |-> GETTER_MESSAGE_INDEX]
           ELSE /\ <<rawVariableTable_[k + 1], j>> \in log.reads
                /\ member.name = property.name
                /\ IF property.value.type = "object"
                   THEN /\ Has(member, "varTableIndex")
                        /\ member.varTableIndex = ReferenceTo(property.value.id)
                   ELSE Has(member, "value") /\ ~Has(member, "varTableIndex")

\* C7 witness: one capture resolved a property that is native and has a getter
\* to index 1; another property of the table was read
PropertyValuesGuardedWitness ==
  /\ Returned
  /\ \E k \in ResolvedSlots : \E j \in PropertyMembers(k) :
       /\ NativeNotLength(k, j)
       /\ ObjectAt(k).properties[j].hasGetter
       /\ EntryAt(k).members[j].varTableIndex = NATIVE_PROPERTY_MESSAGE_INDEX
  /\ log.reads # {}

\* text is longer than a maxStringLength that is set
TooLong(text) ==
  config_.capture.maxStringLength > 0 /\ Len(text) > config_.capture.maxStringLength

(* C8: a primitive whose text is longer than maxStringLength > 0 is, as a   *)
(* local, the first maxStringLength characters followed by '...'            *)
(* (maxStringLength + 3 characters) with a status that is no error; as the  *)
(* direct result of a watch expression it is the full text without status.  *)
StringLimitExemption ==
  /\ \A p \in 1..Len(frames) : \A l \in 1..Len(frames[p].locals) :
       LET v == frames[p].locals[l]
           bound == BoundValues(state_[SourceOf(p) + 1], v.name)
       IN  \A b \in bound :
             (bound = {b} /\ isPrimitive(b) /\ TooLong(toText(b))
                /\ SourceOf(p) < config_.capture.maxExpandFrames)
             => /\ Has(v, "value") /\ Has(v, "status")
                /\ Len(v.value) = config_.capture.maxStringLength + 3
                /\ v.value = SubSeq(toText(b), 1, config_.capture.maxStringLength)
                               \o <<".", ".", ".">>
                /\ ~v.status.isError
  /\ \A k \in 1..Len(evaluatedExpressions_) :
       (Succeeded(k) /\ isPrimitive(expressions_[k].value)
          /\ TooLong(toText(expressions_[k].value)))
       => evaluatedExpressions_[k] =
            [name |-> expressions_[k].text, value |-> toText(expressions_[k].value)]

\* C8 witness: the same long text was captured cut as a local and in full as
\* the result of a watch expression
StringLimitExemptionWitness ==
  /\ Returned
  /\ \E k \in 1..Len(evaluatedExpressions_) :
       /\ Succeeded(k) /\ isPrimitive(expressions_[k].value)
       /\ TooLong(toText(expressions_[k].value))
       /\ \E p \in 1..Len(frames) : \E l \in 1..Len(frames[p].locals) :
            /\ expressions_[k].value \in BoundValues(state_[SourceOf(p) + 1],
                                                     frames[p].locals[l].name)
            /\ Has(frames[p].locals[l], "status")
            /\ Len(frames[p].locals[l].value) < Len(evaluatedExpressions_[k].value)

(* C9: an object with P properties, under maxProperties = M with 0 < M < P, *)
(* has as its entry M + 1 members when it is no watch result (its first M   *)
(* properties in order, then a member that only names the truncation), and  *)
(* all its P properties as members when it is the direct result of a watch  *)
(* expression.                                                              *)
PropertyLimit ==
  \A k \in ResolvedSlots :
    LET properties == ObjectAt(k).properties
        members == EntryAt(k).members
        P == Len(properties)
        M == config_.capture.maxProperties
    IN  (0 < M /\ M < P) =>
          IF IsWatchResult(rawVariableTable_[k + 1])
          THEN /\ Len(members) = P
               /\ \A j \in 1..P : members[j].name = properties[j].name
          ELSE /\ Len(members) = M + 1
               /\ \A j \in 1..M : members[j].name = properties[j].name
               /\ DOMAIN members[M + 1] = {"name"}
               /\ \A j \in 1..P : members[M + 1].name # properties[j].name

\* C9 witness: under one limit a watch result keeps all its properties and
\* another object of the table is cut to M + 1 members
PropertyLimitWitness ==
  /\ Returned
  /\ config_.capture.maxProperties > 0
  /\ \E k \in ResolvedSlots :
       /\ IsWatchResult(rawVariableTable_[k + 1])
       /\ Len(ObjectAt(k).properties) > config_.capture.maxProperties
       /\ Len(EntryAt(k).members) = Len(ObjectAt(k).properties)
  /\ \E k \in ResolvedSlots :
       /\ ~IsWatchResult(rawVariableTable_[k + 1])
       /\ Len(ObjectAt(k).properties) > config_.capture.maxProperties
       /\ Len(EntryAt(k).members) = config_.capture.maxProperties + 1

\* the marker of a frame beyond the cap
IsLimitMarker(list) ==
  /\ Len(list) = 1
  /\ Has(list[1], "varTableIndex")
  /\ list[1].varTableIndex = ARG_LOCAL_LIMIT_MESSAGE_INDEX

(* C10: an eligible frame at position i of the stack with                   *)
(* i >= maxExpandFrames has as arguments and as locals one entry with       *)
(* index 3 each, and its scopes are not resolved; with i < maxExpandFrames  *)
(* its scopes are resolved and its locals are what resolveLocalsList_       *)
(* returns for it.  The position is that in the stack, not among the        *)
(* frames kept.                                                             *)
DepthCapMarkers ==
  \A p \in 1..Len(frames) :
    IF SourceOf(p) >= config_.capture.maxExpandFrames
    THEN /\ IsLimitMarker(frames[p].arguments)
         /\ IsLimitMarker(frames[p].locals)
         /\ SourceOf(p) \notin log.scopes
    ELSE SourceOf(p) \in log.scopes

DepthCap ==
  /\ [](Len(frames) <= Len(EligibleFrom(0)) /\ DepthCapMarkers)
  /\ [][(Len(frames') > Len(frames) /\ i < config_.capture.maxExpandFrames)
          => frames'[Len(frames')].locals =
               resolveLocalsList_([raw |-> rawVariableTable_, totalSize |-> totalSize_],
                                  state_[i + 1]).locals]_vars

\* C10 witness: a frame beyond the cap that is within it when counted among
\* the frames kept carries the markers, and a frame under the cap has locals
DepthCapWitness ==
  /\ Returned
  /\ \E p \in 1..Len(frames) :
       /\ SourceOf(p) >= config_.capture.maxExpandFrames
       /\ p - 1 < config_.capture.maxExpandFrames
       /\ IsLimitMarker(frames[p].locals)
  /\ \E p \in 1..Len(frames) :
       /\ SourceOf(p) < config_.capture.maxExpandFrames
       /\ Len(frames[p].locals) > 1

-----------------------------------------------------------------------------
\* the positions in the scope chain of the scopes that are not excluded: all
\* but the last two, and but the last three when the third from last is a
\* closure
IncludedScopes(frame) ==
  LET count == Len(frame.allScopes)
  IN  1..(IF frame.allScopes[count - 2].scopeType = "Closure"
          THEN count - 3 ELSE count - 2)

\* the names the scopes at the positions in among declare
DeclaredNames(frame, among) ==
  UNION { { frame.allScopes[a].object[b].name :
              b \in 1..Len(frame.allScopes[a].object) } : a \in among }

Declares(frame, a, name) ==
  \E b \in 1..Len(frame.allScopes[a].object) : frame.allScopes[a].object[b].name = name

\* the value name has in the scope at position a
ValueIn(frame, a, name) ==
  LET object == frame.allScopes[a].object
  IN  object[CHOOSE b \in 1..Len(object) : object[b].name = name].value

\* the innermost of the scopes not excluded that declares name
Innermost(frame, name) ==
  CHOOSE a \in IncludedScopes(frame) :
    /\ Declares(frame, a, name)
    /\ \A c \in IncludedScopes(frame) : Declares(frame, c, name) => a <= c

\* variable v presents value: the slot of an object, the text of a primitive
\* (cut to maxStringLength when there is one)
Presents(v, value) ==
  IF value.type = "object"
  THEN Has(v, "varTableIndex") /\ v.varTableIndex = ReferenceTo(value.id)
  ELSE /\ Has(v, "value")
       /\ \/ v.value = toText(value)
          \/ /\ config_.capture.maxStringLength # 0
             /\ v.value = Substring0(toText(value), config_.capture.maxStringLength)
                            \o Dots

\* the positions in frames of the frames whose scopes were resolved
FramesWithLocals == { p \in 1..Len(frames) : SourceOf(p) \in log.scopes }

\* the positions in the locals of frames[p] of the variables called name
LocalsNamed(p, name) ==
  { l \in 1..Len(frames[p].locals) : frames[p].locals[l].name = name }

(* C11: for every name declared by a scope of the frame that is not         *)
(* excluded, whatever the name, the locals hold exactly one variable of     *)
(* that name and it presents the value of the innermost scope declaring it. *)
InnermostBindingWins ==
  \A p \in FramesWithLocals :
    LET frame == state_[SourceOf(p) + 1]
    IN  \A name \in DeclaredNames(frame, IncludedScopes(frame)) :
          /\ Cardinality(LocalsNamed(p, name)) = 1
          /\ \A l \in LocalsNamed(p, name) :
               Presents(frames[p].locals[l], ValueIn(frame, Innermost(frame, name), name))

\* C11 for the names that Object.prototype does not have and that are not
\* context: shadowing between scopes
ShadowingOfPlainNames ==
  \A p \in FramesWithLocals :
    LET frame == state_[SourceOf(p) + 1]
    IN  \A name \in DeclaredNames(frame, IncludedScopes(frame))
                      \ (ObjectPrototypeNames \cup {ContextName}) :
          /\ Cardinality(LocalsNamed(p, name)) = 1
          /\ \A l \in LocalsNamed(p, name) :
               Presents(frames[p].locals[l], ValueIn(frame, Innermost(frame, name), name))

-----------------------------------------------------------------------------
\* the source file of the frame is known and lies in the working directory
UnderRoot(frame) ==
  /\ frame.func.resolved
  /\ frame.func.script.present
  /\ StartsWith(frame.func.script.name, config_.workingDirectory \o <<"/">>)

\* the step of resolveFrames_ for frame i leaves no trace: no frame is
\* pushed, no scope resolved, no object stored and nothing charged
FrameSkipped ==
  /\ frames' = frames
  /\ log'.scopes = log.scopes
  /\ rawVariableTable_' = rawVariableTable_
  /\ totalSize_' = totalSize_

(* C12: a frame whose source file is outside the working directory, or      *)
(* whose function or script is not resolved, is skipped: no frame stands    *)
(* for it in stackFrames, its locals are not resolved and nothing is        *)
(* charged to the budget.                                                   *)
OutsideFramesAbsent ==
  [][(pc = "frames" /\ i < frameCount /\ ~UnderRoot(state_[i + 1]))
       => FrameSkipped]_vars

\* C12 for the paths that do not start with the characters of the working
\* directory, and for the functions and scripts that are not resolved
UnrelatedFramesAbsent ==
  [][(pc = "frames" /\ i < frameCount
        /\ ~StartsWith(resolveFullPath_(state_[i + 1]), config_.workingDirectory))
       => FrameSkipped]_vars

-----------------------------------------------------------------------------
\* the captures of the series that are over, the one in progress included
\* once it is over
CapturesOver ==
  log.past \o (IF pc \in {"done", "thrown"}
               THEN << [inputs |-> inputs, outcome |-> Outcome] >> ELSE <<>>)

(* C13: the Snapshot is a function of the inputs of the capture: two        *)
(* captures of a series with the same execution state, expressions and      *)
(* config give the same Snapshot whatever captures ran before or between    *)
(* them, and every capture starts from tables and a counter of its own.     *)
CapturesIsolated ==
  /\ \A a, b \in 1..Len(CapturesOver) :
       CapturesOver[a].inputs = CapturesOver[b].inputs
         => CapturesOver[a].outcome = CapturesOver[b].outcome
  /\ (pc = "expressions" /\ index2 = 0)
       => /\ totalSize_ = 0
          /\ rawVariableTable_ = InitialRawTable
          /\ resolvedVariableTable_ = messageTable_
          /\ evaluatedExpressions_ = <<>>

\* C13 witness: two captures with the same inputs gave a trimmed Snapshot,
\* with a capture of other inputs between them
CapturesIsolatedWitness ==
  /\ Trimmed
  /\ \E a, b \in 1..Len(log.past) :
       /\ a < b
       /\ log.past[a].inputs = inputs
       /\ log.past[b].inputs # inputs
       /\ log.past[a].outcome = Outcome

-----------------------------------------------------------------------------
\* entry k (from 0) of the table is a status entry: an error status with
\* this text, and neither name, value, members nor index
IsStatusEntry(table, k, text) ==
  /\ DOMAIN table[k + 1] = {"status"}
  /\ table[k + 1].status.isError
  /\ table[k + 1].status.description.text = text

\* the four status entries stand at the indices 0..3 of the table
CanonicalEntries(table) ==
  /\ Len(table) >= 4
  /\ IsStatusEntry(table, BUFFER_FULL_MESSAGE_INDEX, "Max data size reached")
  /\ IsStatusEntry(table, NATIVE_PROPERTY_MESSAGE_INDEX,
                   "Native properties are not available")
  /\ IsStatusEntry(table, GETTER_MESSAGE_INDEX,
                   "Properties with getters are not available")
  /\ IsStatusEntry(table, ARG_LOCAL_LIMIT_MESSAGE_INDEX,
       "Locals and arguments are only displayed for the top maxExpandFrames stack frames.")

(* C14: variableTable[0..3] are the four status entries in the order        *)
(* buffer full, native property, getter, arguments and locals, each an      *)
(* error status without value or members; no object is given an index       *)
(* below 4; no step of the drain or of the truncator changes the four       *)
(* slots.                                                                   *)
SentinelsReserved ==
  /\ [](CanonicalEntries(resolvedVariableTable_))
  /\ [](\A id \in Objects : SlotOf(id) = -1 \/ SlotOf(id) >= 4)
  /\ [](\A k \in 1..4 : k <= Len(rawVariableTable_) /\ rawVariableTable_[k] = Null)
  /\ [](pc \in {"drain", "trim"} => index >= 4)
  /\ [][SubSeq(resolvedVariableTable_', 1, 4) = SubSeq(resolvedVariableTable_, 1, 4)]_vars

\* C14 witness: the drain resolved objects and the truncator ran, and the
\* four entries are there
SentinelsReservedWitness ==
  /\ Trimmed
  /\ Len(resolvedVariableTable_) > 4
  /\ Len(rawVariableTable_) > Len(resolvedVariableTable_)
  /\ CanonicalEntries(Snapshot.variableTable)

-----------------------------------------------------------------------------
\* the objects that are the direct result of a watch expression evaluated
\* so far
WatchObjects == { id \in Objects : IsWatchResult(id) }

\* the slots that follow the messages and hold the watch results
WatchSlots == 4..(4 + Cardinality(WatchObjects) - 1)

\* the object of slot k (from 0) has been resolved by the drain
Resolved(k) == pc \in {"drain", "trim", "done"} /\ k >= 4 /\ k < index

(* C15: every expression is evaluated before any frame is resolved; the     *)
(* objects that are direct results of watch expressions hold the lowest     *)
(* slots after the messages, below every slot assigned while the frames     *)
(* are resolved, and the drain resolves the slots in increasing order, so   *)
(* a watch result before any object found through a frame.                  *)
WatchResultsFirst ==
  /\ [](pc = "expressions"
          => frames = <<>> /\ log.scopes = {}
             /\ Len(rawVariableTable_) = 4 + Cardinality(WatchObjects))
  /\ [](pc \in {"frames", "drain", "trim", "done"} => index2 = Len(expressions_))
  /\ [](\A id \in WatchObjects : SlotOf(id) \in WatchSlots /\ SlotOf(id) \in evalIndexSet)
  /\ [](\A id \in Objects \ WatchObjects :
          SlotOf(id) # -1 => \A w \in WatchObjects : SlotOf(w) < SlotOf(id))
  /\ [][pc = "frames" => (evalIndexSet' = evalIndexSet /\ WatchObjects' = WatchObjects)]_vars
  /\ [][\A id \in Objects \ WatchObjects :
          (~Resolved(SlotOf(id)) /\ Resolved(SlotOf(id))')
            => \A w \in WatchObjects : Resolved(SlotOf(w))]_vars

\* C15 witness: under a budget the drain resolved the result of a watch
\* expression and stopped before an object found through a frame
WatchResultsFirstWitness ==
  /\ Trimmed
  /\ \E w \in WatchObjects, f \in Objects \ WatchObjects :
       /\ Resolved(SlotOf(w))
       /\ SlotOf(f) >= index
       /\ \E p \in 1..Len(frames) : \E l \in 1..Len(frames[p].locals) :
            /\ frames[p].locals[l].name = <<"t">>
            /\ f \in BoundObjects(state_[SourceOf(p) + 1], <<"t">>)

-----------------------------------------------------------------------------
\* the drain went through the whole raw table
FullyDrained ==
  /\ Len(resolvedVariableTable_) = Len(rawVariableTable_)
  /\ index = Len(rawVariableTable_)
  /\ \A v \in SnapshotVariables :
       Has(v, "varTableIndex") => v.varTableIndex # BUFFER_FULL_MESSAGE_INDEX

(* C16: with maxDataSize zero or absent there is no budget: the truncator   *)
(* does not run and the returned variableTable has the length of the raw    *)
(* table, every entry of it resolved, those stored during the drain         *)
(* included.                                                                *)
NoLimitWhenZeroOrAbsent ==
  config_.capture.maxDataSize \in {0, UndefinedSize}
    => /\ pc # "trim"
       /\ Returned => FullyDrained

\* C16 for maxDataSize zero
NoLimitWhenZero ==
  config_.capture.maxDataSize = 0
    => /\ pc # "trim"
       /\ Returned => FullyDrained

-----------------------------------------------------------------------------
\* the phases in their order; an exception ends the capture
PhaseOrder ==
  [expressions |-> 0, frames |-> 1, drain |-> 2, trim |-> 3, done |-> 4, thrown |-> 4]

(* C17: a capture goes through evaluate expressions, resolve frames, drain, *)
(* truncate, assemble in this order, none twice and never back: once the    *)
(* drain has started no expression is evaluated and no frame resolved, and  *)
(* the truncator runs exactly when the drain stopped at an index below the  *)
(* length of the raw table.                                                 *)
PhasesInOrder ==
  /\ [][PhaseOrder[pc'] >= PhaseOrder[pc]]_vars
  /\ [][pc = "expressions" => pc' \in {"expressions", "frames", "thrown"}]_vars
  /\ [][pc = "frames" => pc' \in {"frames", "drain"}]_vars
  /\ [][pc = "trim" => pc' = "done"]_vars
  /\ [][(pc \in {"drain", "trim", "done"})
          => (/\ log'.evaluated = log.evaluated /\ index2' = index2
              /\ Len(evaluatedExpressions_') = Len(evaluatedExpressions_)
              /\ log'.scopes = log.scopes /\ i' = i
              /\ Len(frames') = Len(frames))]_vars
  /\ [][(pc \notin {"frames", "drain"}) => index' = index /\ log'.reads = log.reads]_vars
  /\ [][(pc = "drain" /\ pc' # "drain")
          => (/\ pc' = "trim" <=> index < Len(rawVariableTable_)
              /\ pc' = "done" <=> index = Len(rawVariableTable_))]_vars
  /\ [](pc = "done" => (Trimmed <=> Len(resolvedVariableTable_) < Len(rawVariableTable_)))

\* C17 witness: a capture that evaluated an expression, resolved a frame,
\* drained an object and was truncated has returned
PhasesInOrderWitness ==
  /\ Trimmed
  /\ log.evaluated # {}
  /\ log.scopes # {}
  /\ log.reads # {}

-----------------------------------------------------------------------------
\* slot k (from 0) of the resolved table holds nothing yet:
\* !that.resolvedVariableTable_[index]
Unresolved(k) == k >= Len(resolvedVariableTable_)

(* C18: a slot of the resolved table is written at most once: when an       *)
(* iteration of the drain starts the slot at index holds nothing (the       *)
(* assertion before the write holds), the iteration writes that slot only,  *)
(* and no later iteration changes a slot that is written.                   *)
SlotsWrittenOnce ==
  /\ []((pc = "drain" /\ DrainCondition) => Unresolved(index))
  /\ [][(pc = "drain" /\ index' # index)
          => (/\ Len(resolvedVariableTable_') = index + 1
              /\ SubSeq(resolvedVariableTable_', 1, index) = resolvedVariableTable_)]_vars
  /\ [][(pc # "trim")
          => \A k \in 1..Len(resolvedVariableTable_) :
               /\ k <= Len(resolvedVariableTable_')
               /\ resolvedVariableTable_'[k] = resolvedVariableTable_[k]]_vars

\* C18 witness: the drain has written two slots and starts one more
\* iteration
SlotsWrittenOnceWitness ==
  /\ pc = "drain"
  /\ DrainCondition
  /\ index >= 6
  /\ Unresolved(index)

-----------------------------------------------------------------------------
\* record r without its field f
Without(r, f) == [g \in DOMAIN r \ {f} |-> r[g]]

\* the variables of the list after are those of the list before, rewritten
\* for the cut index k: a variable with an index at or above k has index 0
\* and the buffer full status and keeps its other fields, any other
\* variable keeps its fields; in both cases the members are rewritten
RECURSIVE Rewritten(_, _, _)
Rewritten(before, after, k) ==
  /\ Len(after) = Len(before)
  /\ \A j \in 1..Len(before) :
       LET b == before[j]
           a == after[j]
       IN  /\ IF Has(b, "varTableIndex") /\ b.varTableIndex >= k
              THEN /\ Has(a, "varTableIndex") /\ Has(a, "status")
                   /\ a.varTableIndex = BUFFER_FULL_MESSAGE_INDEX
                   /\ a.status = messageTable_[BUFFER_FULL_MESSAGE_INDEX + 1].status
                   /\ DOMAIN a = DOMAIN b \cup {"status"}
                   /\ \A f \in DOMAIN b \ {"varTableIndex", "status", "members"} :
                        a[f] = b[f]
              ELSE /\ DOMAIN a = DOMAIN b
                   /\ \A f \in DOMAIN b \ {"members"} : a[f] = b[f]
           /\ Has(b, "members") => Rewritten(b.members, a.members, k)

(* C19: the truncator run with cut index k returns a variableTable of       *)
(* length k; in the arguments and locals of the frames, in                  *)
(* evaluatedExpressions and in the entries kept, through their members,     *)
(* every variable with an index at or above k gets index 0 and the buffer   *)
(* full status, and every other variable keeps its name, value, index and   *)
(* status.                                                                  *)
TruncatorEffect ==
  [][(pc = "trim")
       => (/\ Len(resolvedVariableTable_') = index
           /\ Rewritten(SubSeq(resolvedVariableTable_, 1, index),
                        resolvedVariableTable_', index)
           /\ Rewritten(evaluatedExpressions_, evaluatedExpressions_', index)
           /\ Len(frames') = Len(frames)
           /\ \A p \in 1..Len(frames) :
                /\ Rewritten(frames[p].arguments, frames'[p].arguments, index)
                /\ Rewritten(frames[p].locals, frames'[p].locals, index)
                /\ Without(Without(frames'[p], "arguments"), "locals")
                     = Without(Without(frames[p], "arguments"), "locals"))]_vars

\* C19 witness: after the truncator a member of an entry kept carries the
\* buffer full status, a local does, and a variable still refers to an
\* entry kept
TruncatorEffectWitness ==
  /\ Trimmed
  /\ Len(resolvedVariableTable_) > 4
  /\ \E k \in ResolvedSlots : \E j \in 1..Len(EntryAt(k).members) :
       /\ Has(EntryAt(k).members[j], "varTableIndex")
       /\ EntryAt(k).members[j].varTableIndex = BUFFER_FULL_MESSAGE_INDEX
       /\ Has(EntryAt(k).members[j], "status")
  /\ \E v \in SnapshotVariables :
       Has(v, "varTableIndex") /\ v.varTableIndex >= 4

-----------------------------------------------------------------------------
\* the bindings of the scopes not excluded, from binding b of scope a on,
\* innermost scope first, without those whose name is among seen or is
\* declared by a scope gone through before
RECURSIVE VisibleFrom(_, _, _, _)
VisibleFrom(frame, a, b, seen) ==
  IF a \notin IncludedScopes(frame) THEN <<>>
  ELSE IF b > Len(frame.allScopes[a].object) THEN VisibleFrom(frame, a + 1, 1, seen)
  ELSE LET binding == frame.allScopes[a].object[b]
       IN  IF binding.name \in seen THEN VisibleFrom(frame, a, b + 1, seen)
           ELSE <<binding>> \o VisibleFrom(frame, a, b + 1, seen \cup {binding.name})

\* what the locals of a frame stand for: the visible bindings, then the
\* receiver under the name context when there is one
ExpectedLocals(frame) ==
  VisibleFrom(frame, 1, 1, {})
    \o (IF ToBoolean(frame.receiver)
        THEN << Binding(ContextName, frame.receiver) >> ELSE <<>>)

(* C20: the locals hold no binding of the last two scopes of the chain      *)
(* (script and global) nor, when the third from last is a closure, of that  *)
(* scope; every other scope contributes its bindings, the innermost scope   *)
(* first.                                                                   *)
ScopesContribute ==
  \A p \in FramesWithLocals :
    LET expected == ExpectedLocals(state_[SourceOf(p) + 1])
    IN  /\ Len(frames[p].locals) = Len(expected)
        /\ \A l \in 1..Len(expected) :
             l <= Len(frames[p].locals)
               => /\ frames[p].locals[l].name = expected[l].name
                  /\ Presents(frames[p].locals[l], expected[l].value)

\* C20 without the last part: every local is a binding of a scope that is
\* not excluded (or the receiver), and the locals follow the order of the
\* scopes
ExcludedScopesSilent ==
  \A p \in FramesWithLocals :
    LET frame == state_[SourceOf(p) + 1]
        expected == ExpectedLocals(frame)
    IN  \E at \in [1..Len(frames[p].locals) -> 1..Len(expected)] :
          /\ \A l \in 1..Len(frames[p].locals) :
               /\ frames[p].locals[l].name = expected[at[l]].name
               /\ Presents(frames[p].locals[l], expected[at[l]].value)
          /\ \A l, m \in 1..Len(frames[p].locals) : l < m => at[l] < at[m]

-----------------------------------------------------------------------------
\* the variables of the list are bindings of the scopes of the frame that
\* are not excluded, in the order of the scopes
FromScopes(list, frame) ==
  LET visible == VisibleFrom(frame, 1, 1, {})
  IN  \E at \in [1..Len(list) -> 1..Len(visible)] :
        /\ \A l \in 1..Len(list) :
             /\ list[l].name = visible[at[l]].name
             /\ Presents(list[l], visible[at[l]].value)
        /\ \A l, m \in 1..Len(list) : l < m => at[l] < at[m]

\* the last of the locals of frames[p] is the receiver under the name
\* context, and the locals before it come from the scopes
ContextAppended(p, frame) ==
  LET locals == frames[p].locals
  IN  /\ Len(locals) >= 1
      /\ locals[Len(locals)].name = ContextName
      /\ Presents(locals[Len(locals)], frame.receiver)
      /\ FromScopes(SubSeq(locals, 1, Len(locals) - 1), frame)

(* C21: for a frame under the depth cap whose receiver is defined and not   *)
(* null the locals end with exactly one variable named context that stands  *)
(* for the receiver, after the bindings of the scopes; with the receiver    *)
(* undefined or null no such variable is appended.                          *)
ReceiverAsContext ==
  \A p \in FramesWithLocals :
    LET frame == state_[SourceOf(p) + 1]
    IN  IF frame.receiver.type \notin {"undefined", "null"}
        THEN ContextAppended(p, frame)
        ELSE FromScopes(frames[p].locals, frame)

\* C21 with the receivers told apart as the code does, by their truth value
ReceiverAsContextWhenTruthy ==
  \A p \in FramesWithLocals :
    LET frame == state_[SourceOf(p) + 1]
    IN  IF ToBoolean(frame.receiver)
        THEN ContextAppended(p, frame)
        ELSE FromScopes(frames[p].locals, frame)

-----------------------------------------------------------------------------
\* min(frameCount, maxFrames)
RawCap == Min(Len(state_), config_.capture.maxFrames)

\* the indices in the stack of the frames below the cap that pass
\* eligibility, and the p-th of them
EligibleBelowCap ==
  { k \in 0..(RawCap - 1) : shouldFrameBeResolved_(state_[k + 1]) }

NthEligible(p) ==
  CHOOSE k \in EligibleBelowCap :
    Cardinality({ j \in EligibleBelowCap : j < k }) = p - 1

\* stackFrames is, in order, the frames below the cap that pass eligibility
\* (those that resolveFrames_ has gone through so far)
FramesAreEligibleSubsequence ==
  /\ Len(frames) <= Cardinality(EligibleBelowCap)
  /\ Len(frames) <= RawCap
  /\ Returned => Len(frames) = Cardinality(EligibleBelowCap)
  /\ \A p \in 1..Len(frames) :
       frames[p].location = resolveLocation_(state_[NthEligible(p) + 1])

(* C22 as claimed: no frame of the stack at or beyond                        *)
(* min(frameCount, maxFrames) is ever fetched during a capture, and          *)
(* stackFrames is the subsequence, in order, of the frames below that cap    *)
(* that pass eligibility.                                                    *)
NoFrameBeyondRawCap ==
  /\ \A f \in log.fetched : f[2] < RawCap
  /\ FramesAreEligibleSubsequence

(* C22 amended: frame resolution fetches no frame at or beyond              *)
(* min(frameCount, maxFrames), the evaluation of the watch expressions      *)
(* fetches frame 0 whatever maxFrames is, and stackFrames is the            *)
(* subsequence, in order, of the frames below the cap that pass             *)
(* eligibility.                                                             *)
NoFrameResolvedBeyondRawCap ==
  /\ \A f \in log.fetched :
       /\ f[1] = "frames" => f[2] < RawCap
       /\ f[1] = "expressions" => f[2] = 0
  /\ FramesAreEligibleSubsequence

\* C22 witness: a stack longer than maxFrames, of which a frame below the
\* cap was dropped and a later one kept
NoFrameResolvedBeyondRawCapWitness ==
  /\ Returned
  /\ RawCap < Len(state_)
  /\ Len(frames) >= 1
  /\ Len(frames) < RawCap
  /\ <<"frames", RawCap - 1>> \in log.fetched

-----------------------------------------------------------------------------
\* property j of the object at slot k is the length of an array
IsArrayLength(k, j) ==
  ObjectAt(k).isArray /\ ObjectAt(k).properties[j].name = LengthName

\* the member for property j of the object at slot k stands for the value
\* of the property, which was read
MemberResolved(k, j) ==
  /\ <<rawVariableTable_[k + 1], j>> \in log.reads
  /\ EntryAt(k).members[j].name = ObjectAt(k).properties[j].name
  /\ Presents(EntryAt(k).members[j], ObjectAt(k).properties[j].value)

(* C23: the length of an array is resolved to its value by resolveVariable_ *)
(* and is never replaced by the native property or the getter message,      *)
(* whatever the native and getter flags of the property.                    *)
ArrayLengthResolved ==
  \A k \in ResolvedSlots : \A j \in PropertyMembers(k) :
    IsArrayLength(k, j) => MemberResolved(k, j)

\* C23 for a length without getter, whatever its native flag
ArrayLengthResolvedUnlessGetter ==
  \A k \in ResolvedSlots : \A j \in PropertyMembers(k) :
    (IsArrayLength(k, j) /\ ~ObjectAt(k).properties[j].hasGetter)
      => MemberResolved(k, j)

-----------------------------------------------------------------------------
\* what a variable adds by the rule: the length of its name and the length
\* of its string value, the empty string included, or 8 without a value
Contribution(v) ==
  Len(v.name) + (IF Has(v, "value") THEN Len(v.value) ELSE 8)

\* what a variable adds by the rule applied to a value that is not empty
ContributionOfNonEmpty(v) ==
  Len(v.name) + (IF Has(v, "value") /\ v.value # <<>> THEN Len(v.value) ELSE 8)

RECURSIVE SumOfContributions(_)
SumOfContributions(list) ==
  IF list = <<>> THEN 0
  ELSE Contribution(Head(list)) + SumOfContributions(Tail(list))

RECURSIVE SumOfNonEmpty(_)
SumOfNonEmpty(list) ==
  IF list = <<>> THEN 0
  ELSE ContributionOfNonEmpty(Head(list)) + SumOfNonEmpty(Tail(list))

RECURSIVE Concat(_)
Concat(lists) == IF lists = <<>> THEN <<>> ELSE Head(lists) \o Concat(Tail(lists))

\* the members of the entry at slot k that stand for a property: all of
\* them but the notice of the properties left out
MembersOfProperties(k) ==
  LET members == EntryAt(k).members
  IN  IF members # <<>>
         /\ members[Len(members)] = PropertiesNotice(config_.capture.maxProperties)
      THEN SubSeq(members, 1, Len(members) - 1)
      ELSE members

\* the members among them whose property was read
RECURSIVE MembersRead(_, _)
MembersRead(k, j) ==
  IF j > Len(MembersOfProperties(k)) THEN <<>>
  ELSE (IF <<rawVariableTable_[k + 1], j>> \in log.reads
        THEN << EntryAt(k).members[j] >> ELSE <<>>) \o MembersRead(k, j + 1)

\* the variables resolveVariable_ and resolveMirrorProperty_ have produced
\* so far: the results of the expressions, the locals of the frames under
\* the cap, the members of the entries
ResultsOfExpressions ==
  Concat([k \in 1..Len(evaluatedExpressions_) |->
            IF Succeeded(k) THEN << evaluatedExpressions_[k] >> ELSE <<>>])

LocalsOfFrames ==
  Concat([p \in 1..Len(frames) |->
            IF p \in FramesWithLocals THEN frames[p].locals ELSE <<>>])

VariablesProduced ==
  ResultsOfExpressions \o LocalsOfFrames
    \o Concat([k \in 1..(Len(resolvedVariableTable_) - 4) |-> MembersOfProperties(k + 3)])

\* those of them that resolveVariable_ produced
VariablesCharged ==
  ResultsOfExpressions \o LocalsOfFrames
    \o Concat([k \in 1..(Len(resolvedVariableTable_) - 4) |-> MembersRead(k + 3, 1)])

(* C24: each variable produced adds to the size counter the length of its   *)
(* name plus the length of its string value when it has one, the empty      *)
(* string included, and the length of its name plus 8 when it has none;     *)
(* after the phases before the drain and after each step of the drain the   *)
(* counter is the sum of what the variables produced so far add.            *)
SizeIsSumOfContributions ==
  totalSize_ = SumOfContributions(VariablesProduced)

\* C24 as the code counts: the variables resolveVariable_ produced, an
\* empty string value counted as 8
SizeIsSumOfCharges ==
  totalSize_ = SumOfNonEmpty(VariablesCharged)

-----------------------------------------------------------------------------
\* the leaf variables of the Snapshot: the evaluated expressions, the
\* arguments and locals of the frames, the members of the table entries
Leaves ==
  { evaluatedExpressions_[k] : k \in 1..Len(evaluatedExpressions_) }
    \cup UNION { { frames[p].arguments[l] : l \in 1..Len(frames[p].arguments) }
                  \cup { frames[p].locals[l] : l \in 1..Len(frames[p].locals) } :
                 p \in 1..Len(frames) }
    \cup UNION { { EntryAt(k).members[j] : j \in 1..Len(EntryAt(k).members) } :
                 k \in ResolvedSlots }

HasErrorStatus(v) == Has(v, "status") /\ v.status.isError

\* how many of a string value, a varTableIndex and an error status v has
Populated(v) ==
  (IF Has(v, "value") THEN 1 ELSE 0) + (IF Has(v, "varTableIndex") THEN 1 ELSE 0)
    + (IF HasErrorStatus(v) THEN 1 ELSE 0)

\* members are on the entries of the objects and nowhere else
MembersOnObjectEntriesOnly ==
  /\ \A v \in Leaves : ~Has(v, "members")
  /\ \A k \in 1..Len(resolvedVariableTable_) :
       Has(resolvedVariableTable_[k], "members") <=> k > 4

(* C25 as claimed: in a returned Snapshot each leaf variable has exactly    *)
(* one of a string value, a varTableIndex and an error status, and members  *)
(* are on the table entries of resolved objects only.                       *)
LeafHasExactlyOne ==
  Returned => /\ \A v \in Leaves : Populated(v) = 1
              /\ MembersOnObjectEntriesOnly

\* v is a variable as the truncator rewrites it: index 0 and the buffer
\* full status
IsBufferFull(v) ==
  /\ Has(v, "varTableIndex") /\ v.varTableIndex = BUFFER_FULL_MESSAGE_INDEX
  /\ Has(v, "status")
  /\ v.status = messageTable_[BUFFER_FULL_MESSAGE_INDEX + 1].status
  /\ ~Has(v, "value")

\* v is the member that tells of the properties left out: a name only
IsNotice(v) == v = PropertiesNotice(config_.capture.maxProperties)

(* C25 amended: in a returned Snapshot each leaf variable has exactly one   *)
(* of a string value, a varTableIndex and an error status, but for a       *)
(* variable the truncator rewrote, which has index 0 together with the      *)
(* buffer full error status, and for the member that tells of the           *)
(* properties left out, which has a name only; members are on the table     *)
(* entries of resolved objects only.                                        *)
LeafHasOneButWhenRewritten ==
  Returned => /\ \A v \in Leaves :
                   \/ Populated(v) = 1
                   \/ IsBufferFull(v) /\ Trimmed
                   \/ IsNotice(v) /\ config_.capture.maxProperties # 0
              /\ MembersOnObjectEntriesOnly

\* C25 witness: a Snapshot with a variable the truncator rewrote, a string
\* cut to maxStringLength, and an expression that failed
LeafHasOneButWhenRewrittenWitness ==
  /\ Returned
  /\ \E v \in Leaves : IsBufferFull(v)
  /\ \E v \in Leaves : Has(v, "value") /\ Has(v, "status") /\ ~v.status.isError
  /\ \E v \in Leaves : HasErrorStatus(v) /\ ~Has(v, "varTableIndex")

-----------------------------------------------------------------------------
\* the expressions (from 1) that gave an object, and the first of them
ObjectResults ==
  { k \in 1..Len(evaluatedExpressions_) :
      Succeeded(k) /\ expressions_[k].value.type = "object" }

FirstObjectResult == CHOOSE k \in ObjectResults : \A j \in ObjectResults : k <= j

\* the size counter when the evaluation of the expressions was over, and
\* when the frames were resolved
SizeAfterExpressions == SumOfNonEmpty(ResultsOfExpressions)
SizeAfterFrames == SumOfNonEmpty(ResultsOfExpressions \o LocalsOfFrames)

\* the object the first such expression gave has its entry in the
\* variableTable and the expression refers to it
FirstObjectResultResolved ==
  /\ Len(resolvedVariableTable_) > 4
  /\ Has(evaluatedExpressions_[FirstObjectResult], "varTableIndex")
  /\ evaluatedExpressions_[FirstObjectResult].varTableIndex = 4
  /\ ~Has(evaluatedExpressions_[FirstObjectResult], "status")

(* C26: with maxDataSize = N > 0, if the size counter is below N when the   *)
(* expressions have been evaluated and an expression gave an object, the    *)
(* first such object is resolved into the variableTable and its reference   *)
(* is not rewritten, whatever the frames and locals resolved afterwards.    *)
WatchBudgetKept ==
  (/\ Returned
   /\ config_.capture.maxDataSize > 0
   /\ ObjectResults # {}
   /\ SizeAfterExpressions < config_.capture.maxDataSize)
    => FirstObjectResultResolved

\* C26 with the counter taken when the frames have been resolved
WatchBudgetKeptAfterFrames ==
  (/\ Returned
   /\ config_.capture.maxDataSize > 0
   /\ ObjectResults # {}
   /\ SizeAfterFrames < config_.capture.maxDataSize)
    => FirstObjectResultResolved

-----------------------------------------------------------------------------
\* the number of slots resolved: 4 before the drain, its index from then on
ResolvedCount == IF pc \in {"expressions", "frames", "thrown"} THEN 4 ELSE index

\* the entry at slot k is the resolution of the object at slot k of the raw
\* table: its text, and a member for each of its properties, in order (but
\* for those maxProperties leaves out), that stands for the value read
IsResolutionOf(k) ==
  LET entry == EntryAt(k)
      object == ObjectAt(k)
  IN  /\ entry.value = object.text
      /\ Len(MembersOfProperties(k)) <= Len(object.properties)
      /\ (config_.capture.maxProperties = 0 \/ k \in evalIndexSet)
            => Len(entry.members) = Len(object.properties)
      /\ \A j \in 1..Len(MembersOfProperties(k)) :
           /\ entry.members[j].name = object.properties[j].name
           /\ <<rawVariableTable_[k + 1], j>> \in log.reads
                 => Presents(entry.members[j], object.properties[j].value)

(* C27: at every step the resolved table is a prefix without holes of the   *)
(* raw table: its slots are 0..k-1 with 4 <= k <= the length of the raw     *)
(* table, and every entry from slot 4 on is the resolution of the object    *)
(* at the same slot of the raw table; so when an entry found through a      *)
(* frame is kept, the entries of the watch results are kept too.            *)
ResolvedIsPrefix ==
  /\ Len(resolvedVariableTable_) = ResolvedCount
  /\ 4 <= Len(resolvedVariableTable_)
  /\ Len(resolvedVariableTable_) <= Len(rawVariableTable_)
  /\ \A k \in ResolvedSlots : rawVariableTable_[k + 1] # Null /\ IsResolutionOf(k)
  /\ \A id \in Objects \ WatchObjects :
       (SlotOf(id) \in ResolvedSlots)
         => \A w \in WatchObjects : SlotOf(w) \in ResolvedSlots

\* C27 witness: the truncator cut a table of which a watch result and an
\* object found later are kept and another object is not
ResolvedIsPrefixWitness ==
  /\ Trimmed
  /\ \E w \in WatchObjects, f \in Objects \ WatchObjects, g \in Objects :
       /\ SlotOf(w) \in ResolvedSlots
       /\ SlotOf(f) \in ResolvedSlots
       /\ SlotOf(g) >= Len(resolvedVariableTable_)


-----------------------------------------------------------------------------
\* the sentinel entries a variable may refer to without ever being cut:
\* native property, getter, arguments and locals not available
KeptSentinels ==
  {NATIVE_PROPERTY_MESSAGE_INDEX, GETTER_MESSAGE_INDEX, ARG_LOCAL_LIMIT_MESSAGE_INDEX}

RefersToSentinel(v) == Has(v, "varTableIndex") /\ v.varTableIndex \in KeptSentinels

\* every variable of the list before that refers to a sentinel is the same
\* variable in the list after, through the members
RECURSIVE SentinelRefsKept(_, _)
SentinelRefsKept(before, after) ==
  /\ Len(after) = Len(before)
  /\ \A j \in 1..Len(before) :
       /\ RefersToSentinel(before[j]) => after[j] = before[j]
       /\ Has(before[j], "members")
            => /\ Has(after[j], "members")
               /\ SentinelRefsKept(before[j].members, after[j].members)

\* the variables of the Snapshot that refer to a sentinel
SentinelRefs == { v \in SnapshotVariables : RefersToSentinel(v) }

(* C28: the truncator runs with a cut index of at least 4, and a variable   *)
(* that refers to the native property, getter or arguments and locals      *)
(* sentinel (1, 2, 3) is the same after the truncator as before it: it     *)
(* keeps its index and gets no status, in the frames, the evaluated        *)
(* expressions and the entries kept, whatever maxDataSize is.               *)
SentinelRefsNeverCut ==
  [][(pc = "trim")
       => (/\ index >= Len(messageTable_)
           /\ SentinelRefsKept(SubSeq(resolvedVariableTable_, 1, index),
                               resolvedVariableTable_')
           /\ SentinelRefsKept(evaluatedExpressions_, evaluatedExpressions_')
           /\ Len(frames') = Len(frames)
           /\ \A p \in 1..Len(frames) :
                /\ SentinelRefsKept(frames[p].arguments, frames'[p].arguments)
                /\ SentinelRefsKept(frames[p].locals, frames'[p].locals)
           /\ \A v \in SentinelRefs' : ~Has(v, "status"))]_vars

\* C28 witness: the truncator has run and rewrote a variable, and the
\* Snapshot has a variable that refers to one of the three sentinels
SentinelRefsNeverCutWitness ==
  /\ Trimmed
  /\ \E v \in SnapshotVariables : IsBufferFull(v)
  /\ SentinelRefs # {}

-----------------------------------------------------------------------------
\* slot k (from 0) was returned as the varTableIndex of a watch expression
\* that was evaluated with success
ReturnedToExpression(k) ==
  \E j \in 1..Len(evaluatedExpressions_) :
    /\ Succeeded(j)
    /\ Has(evaluatedExpressions_[j], "varTableIndex")
    /\ evaluatedExpressions_[j].varTableIndex = k

\* the properties of the object of slot k whose values the entry holds as
\* primitives
PrimitiveMembers(k) ==
  { j \in 1..Len(MembersOfProperties(k)) :
      /\ <<rawVariableTable_[k + 1], j>> \in log.reads
      /\ isPrimitive(ObjectAt(k).properties[j].value) }

\* the entry of slot k has every property of its object and the full text
\* of every primitive among them, without a status
ResolvedUntruncated(k) ==
  /\ Len(EntryAt(k).members) = Len(ObjectAt(k).properties)
  /\ \A j \in 1..Len(ObjectAt(k).properties) :
       EntryAt(k).members[j].name = ObjectAt(k).properties[j].name
  /\ \A j \in PrimitiveMembers(k) :
       /\ Has(EntryAt(k).members[j], "value")
       /\ EntryAt(k).members[j].value = toText(ObjectAt(k).properties[j].value)
       /\ ~Has(EntryAt(k).members[j], "status")

\* the entry of slot k has both limits applied: no more than maxProperties
\* properties, then the notice; a primitive longer than maxStringLength cut
ResolvedWithLimits(k) ==
  LET M == config_.capture.maxProperties
      P == Len(ObjectAt(k).properties)
  IN  /\ IF 0 < M /\ M < P
         THEN /\ Len(EntryAt(k).members) = M + 1
              /\ IsNotice(EntryAt(k).members[M + 1])
         ELSE Len(EntryAt(k).members) = P
      /\ \A j \in PrimitiveMembers(k) :
           LET text == toText(ObjectAt(k).properties[j].value)
               member == EntryAt(k).members[j]
           IN  /\ Has(member, "value")
               /\ IF TooLong(text)
                  THEN /\ member.value
                            = Substring0(text, config_.capture.maxStringLength) \o Dots
                       /\ Has(member, "status") /\ ~member.status.isError
                  ELSE member.value = text /\ ~Has(member, "status")

\* the variables of the frames that refer to slot k
LocalsReferringTo(k) ==
  { v \in UNION { VariablesIn(frames[p].locals) : p \in 1..Len(frames) } :
      Has(v, "varTableIndex") /\ v.varTableIndex = k }

\* the slots of the objects that are members of the entry of slot k
NestedIn(k) ==
  { EntryAt(k).members[j].varTableIndex :
      j \in { i2 \in 1..Len(EntryAt(k).members) :
                /\ Has(EntryAt(k).members[i2], "varTableIndex")
                /\ EntryAt(k).members[i2].varTableIndex >= Len(messageTable_) } }

(* C29: the exemption from maxStringLength and maxProperties goes by the    *)
(* index in the table: the entry of a slot is resolved as evaluated, with  *)
(* all its properties and the full text of its primitive members, if and   *)
(* only if the slot was returned as the varTableIndex of a watch           *)
(* expression evaluated with success, whoever else refers to it; any other *)
(* entry, the entry of an object nested in a watch result included, has    *)
(* both limits applied.                                                    *)
ExemptionKeyedByIndex ==
  \A k \in ResolvedSlots :
    /\ k \in evalIndexSet <=> ReturnedToExpression(k)
    /\ IF ReturnedToExpression(k)
       THEN ResolvedUntruncated(k)
       ELSE ResolvedWithLimits(k)

\* C29 witness: under both limits a watch result that a local refers to
\* too is resolved with more properties than maxProperties and a primitive
\* member longer than maxStringLength in full, and an object nested in it
\* that is no watch result has its properties and a long primitive cut
ExemptionKeyedByIndexWitness ==
  /\ Returned
  /\ config_.capture.maxProperties > 0
  /\ \E k \in ResolvedSlots :
       /\ ReturnedToExpression(k)
       /\ LocalsReferringTo(k) # {}
       /\ Len(ObjectAt(k).properties) > config_.capture.maxProperties
       /\ \E j \in PrimitiveMembers(k) : TooLong(toText(ObjectAt(k).properties[j].value))
       /\ \E n \in NestedIn(k) \cap ResolvedSlots :
            /\ ~ReturnedToExpression(n)
            /\ Len(ObjectAt(n).properties) > config_.capture.maxProperties
            /\ \E j \in PrimitiveMembers(n) :
                 TooLong(toText(ObjectAt(n).properties[j].value))

-----------------------------------------------------------------------------
\* the one entry of the arguments of a frame beyond the cap
ArgumentsMarker ==
  [name |-> ArgumentsNotAvailable, varTableIndex |-> ARG_LOCAL_LIMIT_MESSAGE_INDEX]

\* the names the scopes of the frame at position p of frames declare
NamesOfFrame(p) ==
  DeclaredNames(state_[SourceOf(p) + 1], 1..Len(state_[SourceOf(p) + 1].allScopes))

(* C30: the arguments of a returned frame under the depth cap are the       *)
(* empty list, and those of a frame beyond the cap are the one marker that  *)
(* refers to the arguments and locals sentinel, so the arguments are not    *)
(* empty only beyond the cap; no binding of the frame is in its arguments:  *)
(* what is reported of the function's arguments is among the locals.        *)
ArgumentsEmptyUnderCap ==
  \A p \in 1..Len(frames) :
    /\ IF SourceOf(p) < config_.capture.maxExpandFrames
       THEN frames[p].arguments = <<>>
       ELSE frames[p].arguments = <<ArgumentsMarker>>
    /\ \A l \in 1..Len(frames[p].arguments) :
         frames[p].arguments[l].name \notin NamesOfFrame(p)

\* C30 witness: a returned Snapshot with a frame under the cap that has
\* locals of its scopes and no arguments, and a frame beyond the cap whose
\* arguments are the marker
ArgumentsEmptyUnderCapWitness ==
  /\ Returned
  /\ \E p \in 1..Len(frames) :
       /\ SourceOf(p) < config_.capture.maxExpandFrames
       /\ frames[p].arguments = <<>>
       /\ \E l \in 1..Len(frames[p].locals) : frames[p].locals[l].name \in NamesOfFrame(p)
  /\ \E p \in 1..Len(frames) :
       /\ SourceOf(p) >= config_.capture.maxExpandFrames
       /\ Len(frames[p].arguments) = 1

=============================================================================
